---------------------------- MODULE Spec2Model ----------------------------
(***************************************************************************)
(* Model of the matrix backend (src/backend/network_builder.py and         *)
(* src/backend/simulate_tx_tax.py):                                        *)
(*   - the round-stepped simulation engine: the process-wide _sim_status   *)
(*     and _sim_results, the HTTP handlers simulation_run,                 *)
(*     simulation_status and simulation_results, and the background        *)
(*     coroutine _run_simulation_task with its per-round fan-out/join;     *)
(*   - the graph builder build_social_graph with _parse_csv_rows and       *)
(*     _parse_connections;                                                 *)
(*   - the BFS-depth variant run_simulation of simulate_tx_tax.py;         *)
(*   - the reply text _call_sim_agent and call_agent_llm make of an        *)
(*     answer of the generation service.                                   *)
(* asyncio runs one coroutine at a time and switches only at an await, so  *)
(* every action below is the code between two awaits.                      *)
(***************************************************************************)
EXTENDS Integers, Sequences, FiniteSets, TLC

VARIABLES
    sim_status,    \* _sim_status: the dict state/progress/total/day/error
    sim_results,   \* _sim_results: dict agent id -> compiled result
    tasks,        \* the background tasks scheduled by simulation_run
    reply,        \* what the HTTP handler of the latest step returned
    gPc,          \* graph builder: "input" before the call, "built" after
    gCsv,         \* graph builder: the parsed CSV text handed to the call
    gDirected,    \* graph builder: the directed flag of the call
    gOut,         \* graph builder: what build_social_graph returned or raised
    bfs,          \* BFS-depth variant: the locals of run_simulation
    think         \* one answer of the generation service and the reply made of it

vars == <<sim_status, sim_results, tasks, reply, gPc, gCsv, gDirected, gOut, bfs, think>>
simVars == <<sim_status, sim_results, tasks, reply>>
graphVars == <<gPc, gCsv, gDirected, gOut>>
bfsVars == <<bfs>>
thinkVars == <<think>>

---------------------------------------------------------------------------
(* Bounds of the model and constants of the program.                       *)

\* SIMULATION_DAYS, the number of rounds R of one run.
SIMULATION_DAYS == 5
\* Longest node list of a start request (and of graph.json).
MaxNodes == 2
\* Number of start requests that are accepted in one behaviour.
MaxRuns == 2
\* Number of generation calls of one run that the service fails.
MaxFail == 1
\* Most memory writes of one run that fail.
MaxMemFail == 1

---------------------------------------------------------------------------
(* Values.                                                                 *)

\* Agent ids that node entries carry.
AgentIds == {"a", "b"}

\* A Python dict with no key.
EmptyDict == <<>>

\* SIMULATION_NEWS_SPARK, the stimulus string.
Stimulus == [kind |-> "stimulus", by |-> "", day |-> 0, idx |-> 0]
\* The text the generation service returned to call idx of agent aid in round d.
Text(aid, d, i) == [kind |-> "text", by |-> aid, day |-> d, idx |-> i]
\* The "[<agent> unavailable: <exc>]" string of a failed generation call.
Placeholder(aid, d, i) == [kind |-> "placeholder", by |-> aid, day |-> d, idx |-> i]
\* The slot of a call that has not returned.
NoMsg == [kind |-> "none", by |-> "", day |-> 0, idx |-> 0]
\* The "" that initial/final get when an agent has no entry.
EmptyContent == [kind |-> "empty", by |-> "", day |-> 0, idx |-> 0]

\* What is wrong with a node entry of the request body, if anything:
\*   noMeta    - the entry has no "metadata" key,
\*   nullConns - its "connections" value is null,
\*   badName   - its metadata.full_name is a blank (whitespace) string.
Defects == {"none", "noMeta", "nullConns", "badName"}

\* The connection lists a node entry carries.
ConnChoices == {<<>>, <<"a">>, <<"b">>, <<"a", "b">>}

\* The node entries of a request body. A defective entry fails the run before
\* its connections are read, so only sound entries vary in them.
NodeChoices ==
    {[id |-> i, conns |-> c, defect |-> "none"] : i \in AgentIds, c \in ConnChoices}
    \cup {[id |-> i, conns |-> <<>>, defect |-> d] : i \in AgentIds, d \in Defects \ {"none"}}

RECURSIVE SeqsUpTo(_, _)
SeqsUpTo(S, n) ==
    IF n = 0 THEN {<<>>}
    ELSE LET shorter == SeqsUpTo(S, n - 1)
         IN  shorter \cup {Append(s, x) : s \in {q \in shorter : Len(q) = n - 1}, x \in S}

\* The node lists of a request body; <<>> is a body without nodes.
NodeLists == SeqsUpTo(NodeChoices, MaxNodes)

\* What the task finds at SIMULATION_GRAPH_PATH.
FileChoices ==
    { [exists |-> FALSE, nodes |-> <<>>],
      [exists |-> TRUE, nodes |-> <<>>],
      [exists |-> TRUE, nodes |-> <<[id |-> "a", conns |-> <<>>, defect |-> "none"]>>] }

\* No ValueError.
NoError == [kind |-> "", ids |-> <<>>, line |-> 0]
NoStats == [node_count |-> 0, edge_count |-> 0, isolated_node_count |-> 0,
            unresolved_connection_count |-> 0, connected_component_count |-> 0]
\* What the caller has when build_social_graph raised.
Rejected(error, directed) ==
    [ok |-> FALSE, error |-> error, directed |-> directed, nodes |-> <<>>,
     edges |-> <<>>, stats |-> NoStats, warnings |-> <<>>]
NoOutput == Rejected(NoError, FALSE)

---------------------------------------------------------------------------
(* _sim_status values.                                                     *)

IdleStatus == [state |-> "idle", progress |-> 0, total |-> 0, day |-> 0, error |-> ""]
\* A variant of AcceptedStatus in which an accepted start leaves the state idle.
AcceptedStatusIdle == [state |-> "idle", progress |-> 0, total |-> 0, day |-> 0, error |-> ""]
\* Line 1461: the status simulation_run sets when it accepts a start.
AcceptedStatus == [state |-> "running", progress |-> 0, total |-> 0, day |-> 0, error |-> ""]
\* A variant of RunningStatus that leaves total at 0.
RunningStatusNoTotal(total) ==
    [state |-> "running", progress |-> 0, total |-> 0, day |-> 0, error |-> ""]
\* Lines 1375-1377: the status the task sets before its first round.
RunningStatus(total) ==
    [state |-> "running", progress |-> 0, total |-> total, day |-> 0, error |-> ""]
DoneStatus(total) ==
    [state |-> "done", progress |-> total, total |-> total, day |-> SIMULATION_DAYS,
     error |-> ""]
\* Variants of ErrorStatus: one records the failure and leaves the state
\* 'running', one drops the exception text, one records the failure as 'idle'.
ErrorStatusRunning(text) ==
    [state |-> "running", progress |-> 0, total |-> 0, day |-> 0, error |-> text]
ErrorStatusBlank(text) ==
    [state |-> "error", progress |-> 0, total |-> 0, day |-> 0, error |-> ""]
ErrorStatusAsIdle(text) ==
    [state |-> "idle", progress |-> 0, total |-> 0, day |-> 0, error |-> text]
\* The except branch of _run_simulation_task, and its no-graph branch.
ErrorStatus(text) ==
    [state |-> "error", progress |-> 0, total |-> 0, day |-> 0, error |-> text]

NoGraphText == "No graph data and graph.json not found"
KeyErrorText == "'metadata'"
TypeErrorText == "'NoneType' object is not iterable"
IndexErrorText == "list index out of range"

---------------------------------------------------------------------------
(* The locals of _run_simulation_task.                                     *)

\* A task slot that holds no coroutine: never scheduled, or returned.
\* pc: "unused" | "scheduled" | "gen" | "mem" | "done" | "failed".
Slot(pc, orphans) ==
    [pc |-> pc, graph_data |-> <<>>, nodes |-> <<>>, day |-> 0,
     results |-> EmptyDict, current_messages |-> EmptyDict, calls |-> <<>>,
     responses |-> <<>>, pending |-> orphans, memPending |-> {}, done |-> 0,
     fails |-> 0, failed |-> {}, memFails |-> 0]

InFlight(t) == tasks[t].pc \in {"scheduled", "gen", "mem"}

all_ids(nodes) == [i \in 1..Len(nodes) |-> nodes[i].id]
IdSet(nodes) == {nodes[i].id : i \in 1..Len(nodes)}
\* agent_map = {n["id"]: n for n in nodes}: a later entry replaces an earlier one.
agent_map(nodes) ==
    [a \in IdSet(nodes) |->
        nodes[CHOOSE i \in 1..Len(nodes) :
                 nodes[i].id = a /\ \A j \in 1..Len(nodes) : nodes[j].id = a => j <= i]]

KeepIn(s, S) == SelectSeq(s, LAMBDA x : x \in S)
DropOne(s, a) == SelectSeq(s, LAMBDA x : x # a)

\* A variant of PrepareCall that names the neighbors in round 0 too.
PrepareCallNamingNeighbors(nodes, aid, day, cur) ==
    LET neighbors == agent_map(nodes)[aid].conns
        listed == IF day = 0 THEN neighbors ELSE KeepIn(neighbors, DOMAIN cur)
        active == IF listed # <<>> THEN listed
                  ELSE IF aid \in DOMAIN cur THEN <<aid>> ELSE <<>>
    IN  [agent |-> aid,
         incoming |-> IF day > 0 /\ active # <<>>
                      THEN [i \in 1..Len(active) |-> cur[active[i]]]
                      ELSE <<Stimulus>>,
         names |-> active,
         talked_to |-> DropOne(active, aid)]
\* Lines 1390-1405: the input of one agent's call in round day, from the
\* previous round's messages cur (a dict agent id -> message).
PrepareCall(nodes, aid, day, cur) ==
    IF day = 0
    THEN [agent |-> aid, incoming |-> <<Stimulus>>, names |-> <<>>, talked_to |-> <<>>]
    ELSE LET neighbors == agent_map(nodes)[aid].conns
             listed == KeepIn(neighbors, DOMAIN cur)
             active == IF listed # <<>> THEN listed
                       ELSE IF aid \in DOMAIN cur THEN <<aid>> ELSE <<>>
         IN  [agent |-> aid,
              incoming |-> IF active # <<>>
                           THEN [i \in 1..Len(active) |-> cur[active[i]]]
                           ELSE <<Stimulus>>,
              names |-> active,
              talked_to |-> DropOne(active, aid)]

\* The exception the loop of lines 1384-1408 raises at entry i in round day, or "".
BuildErrorAt(nodes, i, day) ==
    LET agent == agent_map(nodes)[nodes[i].id]
    IN  IF agent.defect = "noMeta" THEN KeyErrorText
        ELSE IF agent.defect = "nullConns" /\ day > 0 THEN TypeErrorText
        ELSE ""

\* The first exception of the loop of lines 1384-1408 in round day, or "".
BuildError(nodes, day) ==
    LET bad == {i \in 1..Len(nodes) : BuildErrorAt(nodes, i, day) # ""}
    IN  IF bad = {} THEN ""
        ELSE BuildErrorAt(nodes, CHOOSE i \in bad : \A j \in bad : i <= j, day)

\* _call_sim_agent raises before its try block: full_name.split()[0] of a blank name.
CallRaises(nodes, i) == agent_map(nodes)[nodes[i].id].defect = "badName"

Raising(task) == {i \in 1..Len(task.nodes) : CallRaises(task.nodes, i)}

\* The calls of round task.day still in flight.
PendingNow(task) == {c \in task.pending : c[1] = task.day}

\* A variant of GatherReady: the gather returns as soon as one call has.
GatherReadyFirst(task) == Cardinality(PendingNow(task)) < Len(task.nodes)
\* await asyncio.gather(*tasks) of line 1410 returns: every call has returned.
GatherReady(task) == PendingNow(task) = {}

\* Lines 1379-1410 for round day: fails in the loop, or fans the calls out.
\* Gives the task and the status after it.
StartDay(task, status, day) ==
    LET err == BuildError(task.nodes, day)
        n == Len(task.nodes)
    IN  IF err # ""
        THEN [task |-> Slot("failed", task.pending), status |-> ErrorStatus(err)]
        ELSE [task |-> [task EXCEPT
                          !.pc = "gen",
                          !.day = day,
                          !.calls = [i \in 1..n |->
                                       PrepareCall(task.nodes, task.nodes[i].id, day,
                                                   task.current_messages)],
                          !.responses = [i \in 1..n |-> NoMsg],
                          !.failed = {},
                          !.pending = task.pending \cup {<<day, i>> : i \in 1..n}],
              status |-> [status EXCEPT !.day = day]]

RECURSIVE AppendAll(_, _, _, _)
\* The loop of lines 1414-1422 from entry i on: one history entry per response.
AppendAll(res, task, day, i) ==
    IF i > Len(task.nodes) THEN res
    ELSE LET aid == task.nodes[i].id
             entry == [day |-> day, content |-> task.responses[i],
                       talked_to |-> task.calls[i].talked_to]
         IN  AppendAll([res EXCEPT ![aid] = Append(@, entry)], task, day, i + 1)

\* A variant of next_messages that keeps the first snapshot for every later round.
next_messages_kept(task) ==
    IF task.current_messages # EmptyDict THEN task.current_messages
    ELSE [a \in IdSet(task.nodes) |->
             task.responses[CHOOSE i \in 1..Len(task.nodes) :
                 task.nodes[i].id = a /\ \A j \in 1..Len(task.nodes) :
                                           task.nodes[j].id = a => j <= i]]
\* next_messages of lines 1412-1415: the response of the last entry of each id.
next_messages(task) ==
    [a \in IdSet(task.nodes) |->
        task.responses[CHOOSE i \in 1..Len(task.nodes) :
            task.nodes[i].id = a /\ \A j \in 1..Len(task.nodes) :
                                      task.nodes[j].id = a => j <= i]]

\* Lines 1428-1438: the compiled results.
Compile(task) ==
    [a \in IdSet(task.nodes) |->
        LET days == task.results[a]
        IN  [agent_id |-> a, days |-> days,
             initial |-> IF days # <<>> THEN days[1].content ELSE EmptyContent,
             final |-> IF days # <<>> THEN days[Len(days)].content ELSE EmptyContent]]

---------------------------------------------------------------------------
(* HTTP handlers.                                                          *)

NoReply == [kind |-> "none"]
StartedReply == [kind |-> "started"]
AlreadyRunningReply == [kind |-> "already_running"]
StatusReply(body) == [kind |-> "status", body |-> body]
NotReadyReply == [kind |-> "not_ready", code |-> 425]
ResultsReply(body) == [kind |-> "results", body |-> body]

\* A variant of RunRejected: a start is accepted whatever the state.
RunRejectedNever(status) == FALSE
\* Line 1459: the guard of simulation_run.
RunRejected(status) == status.state = "running"

FreeSlots == {t \in DOMAIN tasks : tasks[t].pc = "unused"}

\* POST /api/simulation/run with body.nodes = nodes.
simulation_run(nodes) ==
    IF RunRejected(sim_status)
    THEN /\ reply' = AlreadyRunningReply
         /\ UNCHANGED <<sim_status, sim_results, tasks>>
    ELSE /\ FreeSlots # {}
         /\ LET t == CHOOSE s \in FreeSlots : \A u \in FreeSlots : s <= u
            IN  tasks' = [tasks EXCEPT ![t] = [Slot("scheduled", {}) EXCEPT
                                                 !.graph_data = nodes]]
         /\ sim_status' = AcceptedStatus
         /\ sim_results' = EmptyDict
         /\ reply' = StartedReply

\* GET /api/simulation/status.
simulation_status ==
    /\ reply' = StatusReply(sim_status)
    /\ UNCHANGED <<sim_status, sim_results, tasks>>

\* A variant of ResultsNotReady: results are served whatever the state.
ResultsNotReadyNever(status) == FALSE
\* Line 1475: the guard of simulation_results.
ResultsNotReady(status) == status.state # "done"

\* GET /api/simulation/results.
simulation_results ==
    /\ reply' = IF ResultsNotReady(sim_status) THEN NotReadyReply
                ELSE ResultsReply(sim_results)
    /\ UNCHANGED <<sim_status, sim_results, tasks>>

---------------------------------------------------------------------------
(* Steps of _run_simulation_task.                                          *)

\* Lines 1440-1443 after 1428-1438: publish the results, then the state.
Finish(t, task) ==
    /\ sim_results' = Compile(task)
    /\ sim_status' = DoneStatus(SIMULATION_DAYS * Len(task.nodes))
    /\ tasks' = [tasks EXCEPT ![t] = Slot("done", task.pending)]

\* The task runs from its first line to its first await (line 1410), reading
\* graph.json (file) when the request carried no nodes.
TaskStart(t, file) ==
    /\ tasks[t].pc = "scheduled"
    /\ reply' = NoReply
    /\ LET given == tasks[t].graph_data
           found == given # <<>> \/ file.exists
           nodes == IF given # <<>> THEN given ELSE file.nodes
           ids == IdSet(nodes)
           task == [tasks[t] EXCEPT !.nodes = nodes,
                                    !.results = [a \in ids |-> <<>>]]
           next == StartDay(task, RunningStatus(SIMULATION_DAYS * Len(nodes)), 0)
       IN  IF ~found
           THEN /\ sim_status' = ErrorStatus(NoGraphText)
                /\ tasks' = [tasks EXCEPT ![t] = Slot("failed", {})]
                /\ UNCHANGED sim_results
           ELSE IF nodes = <<>>
           THEN \* gather() of no awaitable is done at once: the five rounds
                \* and the epilogue run without a switch.
                Finish(t, task)
           ELSE /\ sim_status' = next.status
                /\ tasks' = [tasks EXCEPT ![t] = next.task]
                /\ UNCHANGED sim_results

\* A variant of call_sim_agent without the except branch: a failed request
\* raises out of the call.
call_sim_agent_uncaught(aid, d, i, ok) ==
    [raises |-> ~ok, text |-> "timed out", value |-> Text(aid, d, i)]
\* Lines 1340-1348: what _call_sim_agent gives back once the service answered
\* (ok) or the request failed or timed out (~ok): the except branch turns every
\* failure into the placeholder string, so nothing is raised.
call_sim_agent(aid, d, i, ok) ==
    [raises |-> FALSE, text |-> "",
     value |-> IF ok THEN Text(aid, d, i) ELSE Placeholder(aid, d, i)]

\* One generation call returns: its response, text or placeholder, is kept
\* for the join of line 1410. The calls of a round return in any order, also
\* those of a round in which another call raises, for as long as the task has
\* not taken the exception. failed holds the calls of the round whose request
\* failed. A call whose task has gone on without it only ends.
GenSettle(t, c, ok) ==
    /\ c \in tasks[t].pending
    /\ reply' = NoReply
    /\ LET task == tasks[t]
           i == c[2]
           live == task.pc = "gen" /\ c[1] = task.day
           out == call_sim_agent(task.nodes[i].id, c[1], i, ok)
       IN  /\ live => ~CallRaises(task.nodes, i)
           /\ (live /\ ~ok) => task.fails < MaxFail
           /\ (~live) => ok
           /\ IF live /\ out.raises
              THEN /\ sim_status' = ErrorStatus(out.text)
                   /\ tasks' = [tasks EXCEPT ![t] = Slot("failed", task.pending \ {c})]
              ELSE /\ UNCHANGED sim_status
                   /\ tasks' = [tasks EXCEPT ![t] =
                         IF live
                         THEN [task EXCEPT !.pending = @ \ {c},
                                           !.fails = IF ok THEN @ ELSE @ + 1,
                                           !.failed = IF ok THEN @ ELSE @ \cup {i},
                                           !.responses[i] = out.value]
                         ELSE [task EXCEPT !.pending = @ \ {c}]]
    /\ UNCHANGED sim_results

\* A call of the round raised in its first step (line 1309): gather hands the
\* exception to the task, the except branch of line 1445 records it. Calls of
\* the round that returned before that are dropped with the round; the ones
\* that have not returned run on and write nothing.
GatherRaise(t) ==
    /\ tasks[t].pc = "gen"
    /\ Raising(tasks[t]) # {}
    /\ reply' = NoReply
    /\ sim_status' = ErrorStatus(IndexErrorText)
    /\ tasks' = [tasks EXCEPT ![t] =
          Slot("failed", {c \in tasks[t].pending : c[2] \notin Raising(tasks[t])})]
    /\ UNCHANGED sim_results

\* Lines 1412-1425: the join of the round, up to the await of the memory writes.
AfterGather(t) ==
    /\ tasks[t].pc = "gen"
    /\ Raising(tasks[t]) = {}
    /\ GatherReady(tasks[t])
    /\ reply' = NoReply
    /\ LET task == tasks[t]
           n == Len(task.nodes)
       IN  /\ tasks' = [tasks EXCEPT ![t] =
                 [task EXCEPT !.pc = "mem",
                              !.results = AppendAll(task.results, task, task.day, 1),
                              !.done = @ + n,
                              !.memPending = 1..n]]
           /\ sim_status' = [sim_status EXCEPT !.progress = task.done + n]
    /\ UNCHANGED sim_results

\* A variant of store_outcome without the except branch: a failed write
\* raises out of the call.
store_outcome_uncaught(stored) == [raises |-> ~stored, text |-> "timed out"]
\* Lines 1282-1298: how _store_supermemory ends once the write was made
\* (stored) or the request failed or timed out (~stored): the except branch
\* passes, so nothing is raised. Without an API key no request is made.
store_outcome(stored) == [raises |-> FALSE, text |-> ""]

\* One _store_supermemory call returns. A call that raised would fail the
\* gather of line 1425, and the run with it.
store_supermemory(t, i, stored) ==
    /\ tasks[t].pc = "mem"
    /\ i \in tasks[t].memPending
    /\ (~stored) => tasks[t].memFails < MaxMemFail
    /\ reply' = NoReply
    /\ IF store_outcome(stored).raises
       THEN /\ sim_status' = ErrorStatus(store_outcome(stored).text)
            /\ tasks' = [tasks EXCEPT ![t] = Slot("failed", tasks[t].pending)]
       ELSE /\ tasks' = [tasks EXCEPT ![t].memPending = @ \ {i},
                                      ![t].memFails = IF stored THEN @ ELSE @ + 1]
            /\ UNCHANGED sim_status
    /\ UNCHANGED sim_results

\* Line 1426, then the next round or lines 1428-1443.
AfterMem(t) ==
    /\ tasks[t].pc = "mem"
    /\ tasks[t].memPending = {}
    /\ reply' = NoReply
    /\ LET task == [tasks[t] EXCEPT !.current_messages = next_messages(tasks[t])]
           next == StartDay(task, sim_status, task.day + 1)
       IN  IF task.day + 1 < SIMULATION_DAYS
           THEN /\ sim_status' = next.status
                /\ tasks' = [tasks EXCEPT ![t] = next.task]
                /\ UNCHANGED sim_results
           ELSE Finish(t, task)

---------------------------------------------------------------------------
(* The reply text of a generation call. A string is a sequence of          *)
(* characters; the marker "</think>" stands as one character, " " stands   *)
(* for any whitespace and "x" for any other character.                     *)

\* Longest content of an answer.
MaxContent == 4

Marker == "</think>"
Contents == SeqsUpTo({"x", " ", Marker}, MaxContent)

RECURSIVE lstrip(_)
\* str.lstrip(): without its leading whitespace.
lstrip(s) == IF s # <<>> /\ Head(s) = " " THEN lstrip(Tail(s)) ELSE s
RECURSIVE rstrip(_)
\* str.rstrip(): without its trailing whitespace.
rstrip(s) ==
    IF s # <<>> /\ s[Len(s)] = " " THEN rstrip(SubSeq(s, 1, Len(s) - 1)) ELSE s
\* str.strip().
strip(s) == rstrip(lstrip(s))

\* "</think>" in content.
HasMarker(content) == \E i \in 1..Len(content) : content[i] = Marker
\* content.split("</think>", 1)[1]: what follows the first marker.
AfterFirstMarker(content) ==
    LET first == CHOOSE i \in 1..Len(content) :
                    /\ content[i] = Marker
                    /\ \A j \in 1..(i - 1) : content[j] # Marker
    IN  SubSeq(content, first + 1, Len(content))

\* Lines 1343-1346 of network_builder.py: what _call_sim_agent returns for
\* an answer with this content.
sim_agent_content(content) ==
    strip(IF HasMarker(content) THEN strip(AfterFirstMarker(content)) ELSE content)

\* Lines 52-65 of simulate_tx_tax.py: what call_agent_llm returns when the
\* first answer has this content and a second one, if asked for, content2.
agent_llm_content(content, content2) ==
    strip(IF HasMarker(content) THEN strip(AfterFirstMarker(content))
          ELSE IF HasMarker(content2) THEN strip(AfterFirstMarker(content2))
          ELSE content2)

\* str(e) of the exception of a request that fails.
ExcTexts == { <<>>, <<"x">> }
\* Lines 1348 of network_builder.py and 67 of simulate_tx_tax.py: the string
\* "[<agent_id> unavailable: <exc>]", returned as it is; "[" and "]" stand
\* for themselves, "x" for the agent id and for the word "unavailable:".
Unavailable(exc) == <<"[", "x", " ", "x", " ">> \o exc \o <<"]">>

\* One generation call. caller: "sim" (_call_sim_agent) | "llm"
\* (call_agent_llm). pc: "off" | "start" (the first request is sent) |
\* "asked" (the second request is sent) | "returned". content and content2
\* are what the service answers to the first and to the second request if
\* it answers; messages and max_tokens are those of the payload last sent.
Answer(caller, content, content2) ==
    [caller |-> caller, pc |-> "start", content |-> content, content2 |-> content2,
     out |-> <<>>, asked_again |-> FALSE, failed |-> FALSE, messages |-> 2,
     max_tokens |-> IF caller = "sim" THEN 512 ELSE 1024]
NoAnswer ==
    [caller |-> "none", pc |-> "off", content |-> <<>>, content2 |-> <<>>,
     out |-> <<>>, asked_again |-> FALSE, failed |-> FALSE, messages |-> 0,
     max_tokens |-> 0]

\* _call_sim_agent, lines 1342-1346: the request is answered and the reply
\* is returned.
SimAgentReturns ==
    /\ think.caller = "sim" /\ think.pc = "start"
    /\ think' = [think EXCEPT !.pc = "returned",
                              !.out = sim_agent_content(think.content)]

\* _call_sim_agent, lines 1347-1348: the request raises.
SimAgentUnavailable ==
    /\ think.caller = "sim" /\ think.pc = "start"
    /\ \E exc \in ExcTexts :
          think' = [think EXCEPT !.pc = "returned", !.failed = TRUE,
                                 !.out = Unavailable(exc)]

\* call_agent_llm, lines 51-61: the first request is answered. An answer
\* with the marker is returned (lines 54-55 and 65); after one without it
\* the answer and a nudge are appended to the messages, max_tokens is set to
\* 80 and a second request is sent (lines 58-61).
AgentLlmFirstAnswer ==
    /\ think.caller = "llm" /\ think.pc = "start"
    /\ IF HasMarker(think.content)
       THEN think' = [think EXCEPT
                        !.pc = "returned",
                        !.out = agent_llm_content(think.content, think.content2)]
       ELSE think' = [think EXCEPT !.pc = "asked", !.asked_again = TRUE,
                                   !.messages = @ + 2, !.max_tokens = 80]

\* call_agent_llm, lines 61-65: the second request is answered and the reply
\* is returned.
AgentLlmSecondAnswer ==
    /\ think.caller = "llm" /\ think.pc = "asked"
    /\ think' = [think EXCEPT
                    !.pc = "returned",
                    !.out = agent_llm_content(think.content, think.content2)]

\* call_agent_llm, lines 66-67: the first or the second request raises.
AgentLlmUnavailable ==
    /\ think.caller = "llm" /\ think.pc \in {"start", "asked"}
    /\ \E exc \in ExcTexts :
          think' = [think EXCEPT !.pc = "returned", !.failed = TRUE,
                                 !.out = Unavailable(exc)]

---------------------------------------------------------------------------
(* The BFS-depth variant, run_simulation of src/backend/simulate_tx_tax.py. *)

\* Most agents of a graph.json.
BfsMaxAgents == 3
\* Largest num_seeds of a run.
BfsMaxSeeds == 2
\* Largest max_depth of a run.
BfsMaxDepth == 3

\* The agent ids of graph.json, in file order.
BfsIds == <<"a", "b", "c", "d", "e">>
BfsIdsUpTo(n) == {BfsIds[k] : k \in 1..n}

\* spark_news, and what call_agent_llm returns: the reply of the first
\* answer, the content of the second answer after a first one without
\* "</think>", or the "[<agent> unavailable: <exc>]" string.
Spark == [kind |-> "spark", by |-> "", depth |-> 0]
Reaction(kind, agent_id, depth) == [kind |-> kind, by |-> agent_id, depth |-> depth]
NoResponse == [kind |-> "none", by |-> "", depth |-> 0]

\* The ids of S in file order: the sorted connections list of a node.
InFileOrder(S) == SelectSeq(BfsIds, LAMBDA x : x \in S)

\* The graphs the network builder writes for n agents: unique ids, every
\* connection the id of another node. named is the set of agents whose
\* system prompt gives a name after "You are "; at most one gives none.
BfsGraphsOf(n) ==
    LET ids == BfsIdsUpTo(n)
    IN  {[k \in 1..n |-> [id |-> BfsIds[k],
                          connections |-> InFileOrder(conn[BfsIds[k]]),
                          named |-> BfsIds[k] \notin unnamed]] :
            conn \in {c \in [ids -> SUBSET ids] : \A a \in ids : a \notin c[a]},
            unnamed \in {{}} \cup {{a} : a \in ids}}

\* What open("graph.json") finds.
BfsFiles ==
    {[exists |-> FALSE, nodes |-> <<>>]}
    \cup {[exists |-> TRUE, nodes |-> g] : g \in UNION {BfsGraphsOf(n) : n \in 1..BfsMaxAgents}}

\* random.sample(population, k): k entries at distinct positions, in any order.
Samples(population, k) ==
    {s \in SeqsUpTo({population[i] : i \in 1..Len(population)}, k) :
        /\ Len(s) = k
        /\ \A i, j \in 1..k : i # j => s[i] # s[j]}

\* agent_map of line 78.
bfs_agent_map(nodes) ==
    [a \in {nodes[k].id : k \in 1..Len(nodes)} |->
        nodes[CHOOSE k \in 1..Len(nodes) : nodes[k].id = a]]

\* One entry of queue: (target_agent, message_content, current_depth).
QueueItem(agent_id, message, depth) ==
    [agent_id |-> agent_id, message |-> message, depth |-> depth]

\* A variant of UnvisitedAtCall that lets every queued agent through.
UnvisitedAtCallAlways(agent_id, visited) == TRUE
\* Line 115: agent_id not in visited.
UnvisitedAtCall(agent_id, visited) == agent_id \notin visited

\* A variant of UnvisitedAtForward that forwards to every neighbor.
UnvisitedAtForwardAlways(neighbor_id, visited) == TRUE
\* Line 133: neighbor_id not in visited.
UnvisitedAtForward(neighbor_id, visited) == neighbor_id \notin visited

RECURSIVE TakeLayer(_, _, _, _)
\* The loop of lines 114-119 over the layer: the agents it marks visited and
\* the calls it makes, each with the message that reached the agent.
TakeLayer(layer, visited, agent_ids, messages) ==
    IF layer = <<>>
    THEN [visited |-> visited, agent_ids |-> agent_ids, messages |-> messages]
    ELSE IF UnvisitedAtCall(Head(layer).agent_id, visited)
    THEN TakeLayer(Tail(layer), visited \cup {Head(layer).agent_id},
                   Append(agent_ids, Head(layer).agent_id),
                   Append(messages, Head(layer).message))
    ELSE TakeLayer(Tail(layer), visited, agent_ids, messages)

RECURSIVE ForwardTo(_, _, _, _, _)
\* The loop of lines 132-134 over the neighbors of one sender.
ForwardTo(queue, neighbors, response, depth, visited) ==
    IF neighbors = <<>> THEN queue
    ELSE ForwardTo(IF UnvisitedAtForward(Head(neighbors), visited)
                   THEN Append(queue, QueueItem(Head(neighbors), response, depth))
                   ELSE queue,
                   Tail(neighbors), response, depth, visited)

RECURSIVE Propagate(_, _)
\* The loop of lines 124-134 from response i on; b holds the locals of
\* run_simulation.
Propagate(b, i) ==
    IF i > Len(b.responses) THEN b
    ELSE LET sender_id == b.agent_ids[i]
             response == b.responses[i]
         IN  Propagate(
                [b EXCEPT
                   !.history = Append(@, [from |-> sender_id, depth |-> b.current_depth,
                                          content |-> response]),
                   !.queue = ForwardTo(@, bfs_agent_map(b.nodes)[sender_id].connections,
                                       response, b.current_depth + 1, b.visited)],
                i + 1)

\* The locals of run_simulation. pc: "off" | "start" | "loop" | "gather" |
\* "done" | "returned" | "crashed". pending and retrying hold the calls of
\* the layer that wait for their first and for their second answer; calls
\* lists the calls of line 118 made so far; log is simulation_log.json.
BfsLocals(pc, file, num_seeds, max_depth) ==
    [pc |-> pc, file |-> file, num_seeds |-> num_seeds, max_depth |-> max_depth,
     nodes |-> <<>>, seeds |-> <<>>, queue |-> <<>>, visited |-> {}, history |-> <<>>,
     current_depth |-> 0, layer |-> <<>>, agent_ids |-> <<>>, messages |-> <<>>,
     responses |-> <<>>, pending |-> {}, retrying |-> {}, calls |-> <<>>,
     saved |-> FALSE, log |-> <<>>]

BfsOff == BfsLocals("off", [exists |-> FALSE, nodes |-> <<>>], 0, 0)

\* Lines 71-96: load graph.json, draw the seeds, fill the queue.
BfsLoad ==
    /\ bfs.pc = "start"
    /\ IF ~bfs.file.exists
       THEN bfs' = [bfs EXCEPT !.pc = "returned"]
       ELSE IF bfs.num_seeds > Len(bfs.file.nodes)
       THEN \* random.sample raises ValueError
            bfs' = [bfs EXCEPT !.pc = "crashed", !.nodes = bfs.file.nodes]
       ELSE \E seeds \in Samples([k \in 1..Len(bfs.file.nodes) |-> bfs.file.nodes[k].id],
                                 bfs.num_seeds) :
               bfs' = [bfs EXCEPT
                         !.pc = "loop",
                         !.nodes = bfs.file.nodes,
                         !.seeds = seeds,
                         !.queue = [k \in 1..Len(seeds) |-> QueueItem(seeds[k], Spark, 0)]]

\* Lines 136-139: the log is written.
BfsSave(b) == [b EXCEPT !.pc = "done", !.saved = TRUE, !.log = b.history]

\* Lines 99-122 up to the await: leave the loop, or take the layer of the
\* least depth off the queue and call every agent of it not visited yet.
\* Line 101 sets current_depth before the test of line 102, so a run that
\* stops at max_depth ends with the depth of the layer it left on the queue.
LayerStart ==
    /\ bfs.pc = "loop"
    /\ IF bfs.queue = <<>> THEN bfs' = BfsSave(bfs)
       ELSE LET current_depth == bfs.queue[1].depth
                layer == SelectSeq(bfs.queue, LAMBDA item : item.depth = current_depth)
                taken == TakeLayer(layer, bfs.visited, <<>>, <<>>)
                n == Len(taken.agent_ids)
            IN  IF current_depth >= bfs.max_depth
                THEN bfs' = BfsSave([bfs EXCEPT !.current_depth = current_depth])
                ELSE bfs' = [bfs EXCEPT
                        !.pc = "gather",
                        !.current_depth = current_depth,
                        !.layer = layer,
                        !.queue = SelectSeq(@, LAMBDA item : item.depth > current_depth),
                        !.visited = taken.visited,
                        !.agent_ids = taken.agent_ids,
                        !.messages = taken.messages,
                        !.responses = [i \in 1..n |-> NoResponse],
                        !.pending = 1..n,
                        !.retrying = {},
                        !.calls = @ \o [i \in 1..n |->
                                          [agent_id |-> taken.agent_ids[i],
                                           depth |-> current_depth,
                                           message |-> taken.messages[i]]]]

\* The calls of the layer that raise before their try block: first_name of
\* line 30 for a prompt with no name after "You are ".
BfsRaising(b) ==
    {i \in 1..Len(b.agent_ids) : ~bfs_agent_map(b.nodes)[b.agent_ids[i]].named}

\* Lines 51-67: the first answer to call i. A reply holds "</think>" and
\* its tail is returned; a cut answer holds none and is asked again; a
\* failed request returns the unavailable string. The calls of a layer
\* answer in any order, also while the gather of line 122 has not yet taken
\* the exception of another call of the layer.
CallAnswer(i, outcome) ==
    /\ bfs.pc = "gather"
    /\ i \in bfs.pending
    /\ i \notin BfsRaising(bfs)
    /\ bfs' = [bfs EXCEPT
                 !.pending = @ \ {i},
                 !.retrying = IF outcome = "cut" THEN @ \cup {i} ELSE @,
                 !.responses[i] =
                     CASE outcome = "reply" ->
                              Reaction("reply", bfs.agent_ids[i], bfs.current_depth)
                       [] outcome = "cut" -> @
                       [] outcome = "fail" ->
                              Reaction("unavailable", bfs.agent_ids[i], bfs.current_depth)]

\* Lines 61-67: the second answer to call i.
RetryAnswer(i, answered) ==
    /\ bfs.pc = "gather"
    /\ i \in bfs.retrying
    /\ bfs' = [bfs EXCEPT
                 !.retrying = @ \ {i},
                 !.responses[i] =
                     Reaction(IF answered THEN "second" ELSE "unavailable",
                              bfs.agent_ids[i], bfs.current_depth)]

\* A call of the layer raised: gather raises, run_simulation ends with the
\* exception and asyncio.run cancels the calls that were waiting. What the
\* other calls had answered by then is never read.
BfsGatherRaise ==
    /\ bfs.pc = "gather"
    /\ BfsRaising(bfs) # {}
    /\ bfs' = [bfs EXCEPT !.pc = "crashed", !.pending = {}, !.retrying = {}]

\* Lines 122-134 after the await: log every response and queue it for the
\* neighbors that are not visited.
LayerEnd ==
    /\ bfs.pc = "gather"
    /\ BfsRaising(bfs) = {}
    /\ bfs.pending = {} /\ bfs.retrying = {}
    /\ bfs' = [Propagate(bfs, 1) EXCEPT !.pc = "loop"]

---------------------------------------------------------------------------
(* The simulation engine.                                                  *)

TaskIds == 1..MaxRuns

\* The bodies of the start requests that can tell states apart: a rejected
\* request returns before its body is read.
RequestBodies == IF RunRejected(sim_status) THEN {<<>>} ELSE NodeLists

Init ==
    /\ sim_status = IdleStatus
    /\ sim_results = EmptyDict
    /\ tasks = [t \in TaskIds |-> Slot("unused", {})]
    /\ reply = NoReply
    /\ gPc = "off"
    /\ gCsv = [header |-> <<>>, rows |-> <<>>]
    /\ gDirected = FALSE
    /\ gOut = NoOutput
    /\ bfs = BfsOff
    /\ think = NoAnswer

Next ==
    \/ /\ \E nodes \in RequestBodies : simulation_run(nodes)
       /\ UNCHANGED <<graphVars, bfsVars, thinkVars>>
    \/ /\ simulation_status
       /\ UNCHANGED <<graphVars, bfsVars, thinkVars>>
    \/ /\ simulation_results
       /\ UNCHANGED <<graphVars, bfsVars, thinkVars>>
    \/ /\ \E t \in TaskIds, file \in FileChoices : TaskStart(t, file)
       /\ UNCHANGED <<graphVars, bfsVars, thinkVars>>
    \/ /\ \E t \in TaskIds : \E c \in tasks[t].pending, ok \in BOOLEAN : GenSettle(t, c, ok)
       /\ UNCHANGED <<graphVars, bfsVars, thinkVars>>
    \/ /\ \E t \in TaskIds : GatherRaise(t)
       /\ UNCHANGED <<graphVars, bfsVars, thinkVars>>
    \/ /\ \E t \in TaskIds : AfterGather(t)
       /\ UNCHANGED <<graphVars, bfsVars, thinkVars>>
    \/ /\ \E t \in TaskIds : \E i \in tasks[t].memPending, stored \in BOOLEAN :
             store_supermemory(t, i, stored)
       /\ UNCHANGED <<graphVars, bfsVars, thinkVars>>
    \/ /\ \E t \in TaskIds : AfterMem(t)
       /\ UNCHANGED <<graphVars, bfsVars, thinkVars>>

Spec == Init /\ [][Next]_vars

\* The steps of the background tasks and of the calls they await: the event
\* loop runs a scheduled task and resumes a task whose gather is complete,
\* and every generation call and memory write returns or raises in the end.
TaskSteps ==
    /\ \/ \E t \in TaskIds, file \in FileChoices : TaskStart(t, file)
       \/ \E t \in TaskIds : \E c \in tasks[t].pending, ok \in BOOLEAN : GenSettle(t, c, ok)
       \/ \E t \in TaskIds : GatherRaise(t)
       \/ \E t \in TaskIds : AfterGather(t)
       \/ \E t \in TaskIds : \E i \in tasks[t].memPending, stored \in BOOLEAN :
             store_supermemory(t, i, stored)
       \/ \E t \in TaskIds : AfterMem(t)
    /\ UNCHANGED <<graphVars, bfsVars, thinkVars>>

\* The start requests and the steps they set off. The status and results
\* handlers only read the state of the run and are left to Spec.
LiveNext ==
    \/ /\ \E nodes \in RequestBodies : simulation_run(nodes)
       /\ UNCHANGED <<graphVars, bfsVars, thinkVars>>
    \/ /\ \E t \in TaskIds, file \in FileChoices : TaskStart(t, file)
       /\ UNCHANGED <<graphVars, bfsVars, thinkVars>>
    \/ /\ \E t \in TaskIds : \E c \in tasks[t].pending, ok \in BOOLEAN : GenSettle(t, c, ok)
       /\ UNCHANGED <<graphVars, bfsVars, thinkVars>>
    \/ /\ \E t \in TaskIds : GatherRaise(t)
       /\ UNCHANGED <<graphVars, bfsVars, thinkVars>>
    \/ /\ \E t \in TaskIds : AfterGather(t)
       /\ UNCHANGED <<graphVars, bfsVars, thinkVars>>
    \/ /\ \E t \in TaskIds : \E i \in tasks[t].memPending, stored \in BOOLEAN :
             store_supermemory(t, i, stored)
       /\ UNCHANGED <<graphVars, bfsVars, thinkVars>>
    \/ /\ \E t \in TaskIds : AfterMem(t)
       /\ UNCHANGED <<graphVars, bfsVars, thinkVars>>

\* The simulation engine under a fair event loop.
LiveSpec == Init /\ [][LiveNext]_vars /\ WF_vars(TaskSteps)

---------------------------------------------------------------------------
(* The graph builder. A string is a sequence of characters; the words "p",  *)
(* "agent_id", "connections" and "system_prompt" stand as one character.    *)

\* Rows of one CSV that vary in ids, connections and blanks.
MaxRows == 3
\* Rows of one CSV of plain rows, which vary in ids alone.
MaxPlainRows == 4
\* Rows of one CSV whose header pads a column name.
MaxPaddedRows == 2
\* Lines of one CSV that has lines of no cell or of one cell.
MaxGapLines == 3

\* CONNECTION_SPLIT_PATTERN = [|;,]
CONNECTION_SPLIT_PATTERN == {"|", ";", ","}
REQUIRED_COLUMNS == {"agent_id", "connections", "system_prompt"}

\* The code point order of the characters, which sorted() follows.
CharOrder == <<" ", ",", ";", "A", "B", "C", "Z", "agent_id", "connections", "p",
               "system_prompt", "|">>
Rank(ch) == CHOOSE k \in 1..Len(CharOrder) : CharOrder[k] = ch

RECURSIVE StrLess(_, _)
\* s < t for Python str.
StrLess(s, t) ==
    IF t = <<>> THEN FALSE
    ELSE IF s = <<>> THEN TRUE
    ELSE IF Head(s) = Head(t) THEN StrLess(Tail(s), Tail(t))
    ELSE Rank(Head(s)) < Rank(Head(t))

\* (a, b) < (c, d) for tuples of two str.
PairLess(p, q) == StrLess(p[1], q[1]) \/ (p[1] = q[1] /\ StrLess(p[2], q[2]))

RECURSIVE SortedStrs(_)
\* sorted(S) for a set of str.
SortedStrs(S) ==
    IF S = {} THEN <<>>
    ELSE LET least == CHOOSE x \in S : \A y \in S \ {x} : StrLess(x, y)
         IN  <<least>> \o SortedStrs(S \ {least})

RECURSIVE SortedPairs(_)
\* sorted(S) for a set of tuples.
SortedPairs(S) ==
    IF S = {} THEN <<>>
    ELSE LET least == CHOOSE x \in S : \A y \in S \ {x} : PairLess(x, y)
         IN  <<least>> \o SortedPairs(S \ {least})

Range(s) == {s[k] : k \in 1..Len(s)}

RECURSIVE LStrip(_)
LStrip(s) == IF s # <<>> /\ Head(s) = " " THEN LStrip(Tail(s)) ELSE s
RECURSIVE RStrip(_)
RStrip(s) == IF s # <<>> /\ s[Len(s)] = " " THEN RStrip(SubSeq(s, 1, Len(s) - 1)) ELSE s
\* str.strip()
Strip(s) == RStrip(LStrip(s))

RECURSIVE SplitAcc(_, _, _)
SplitAcc(s, cur, acc) ==
    IF s = <<>> THEN Append(acc, cur)
    ELSE IF Head(s) \in CONNECTION_SPLIT_PATTERN
         THEN SplitAcc(Tail(s), <<>>, Append(acc, cur))
         ELSE SplitAcc(Tail(s), Append(cur, Head(s)), acc)
\* CONNECTION_SPLIT_PATTERN.split(raw)
Split(raw) == SplitAcc(raw, <<>>, <<>>)

RECURSIVE ParseItemsKeepRepeats(_, _)
\* A variant of ParseItems that keeps a candidate it has seen.
ParseItemsKeepRepeats(items, parsed) ==
    IF items = <<>> THEN parsed
    ELSE LET candidate == Strip(Head(items))
         IN  IF candidate = <<>>
             THEN ParseItemsKeepRepeats(Tail(items), parsed)
             ELSE ParseItemsKeepRepeats(Tail(items), Append(parsed, candidate))

RECURSIVE ParseItems(_, _)
\* The loop of lines 238-243 over the split items.
ParseItems(items, parsed) ==
    IF items = <<>> THEN parsed
    ELSE LET candidate == Strip(Head(items))
         IN  IF candidate = <<>> \/ candidate \in Range(parsed)
             THEN ParseItems(Tail(items), parsed)
             ELSE ParseItems(Tail(items), Append(parsed, candidate))

\* _parse_connections
parse_connections(raw_connections) ==
    LET raw == Strip(raw_connections)
    IN  IF raw = <<>> THEN <<>> ELSE ParseItems(Split(raw), <<>>)

\* The key of a column in a record: its name as one string.
Key(column) == <<column>>

\* Python's None, which is no str.
None == <<"None">>

\* The record csv.DictReader makes of one line: dict(zip(fieldnames, row)),
\* the cells keyed by the names of the header line as they are written
\* there. A name that occurs twice keeps its last cell; a name past the end
\* of a short line gets restval, None.
ReaderRecord(header, line) ==
    [name \in Range(header) |->
        LET k == CHOOSE j \in 1..Len(header) :
                     /\ header[j] = name
                     /\ \A i \in (j + 1)..Len(header) : header[i] # name
        IN  IF k <= Len(line) THEN line[k] ELSE None]

\* csv.DictReader over the lines after the header: one record for every
\* line that has a cell, in order; a line of no cell (row == []) is passed
\* over and gives no record.
DictReader(header, lines) ==
    LET read == SelectSeq(lines, LAMBDA line : line # <<>>)
    IN  [k \in 1..Len(read) |-> ReaderRecord(header, read[k])]

\* _normalize_record: for every field name, record.get(field, "") stripped.
\* The field names are the stripped header names (line 736), the keys of the
\* record are the names as written.
normalize_record(record, fieldnames) ==
    [field \in Range(fieldnames) |->
        IF field \in DOMAIN record /\ record[field] # None
        THEN Strip(record[field]) ELSE <<>>]

\* The ValueError messages of _parse_csv_rows and build_social_graph.
MissingHeader == [kind |-> "missing_header", ids |-> <<>>, line |-> 0]
MissingColumns(names) == [kind |-> "missing_columns", ids |-> names, line |-> 0]
MissingAgentId(line_index) == [kind |-> "missing_agent_id", ids |-> <<>>, line |-> line_index]
NoDataRows == [kind |-> "no_data_rows", ids |-> <<>>, line |-> 0]
DuplicateError(ids) == [kind |-> "duplicate", ids |-> ids, line |-> 0]

\* Line 750: not any(value for value in normalized.values()).
IsBlank(normalized) == \A field \in DOMAIN normalized : normalized[field] = <<>>

\* _parse_csv_rows on a CSV of a header (the cells of line 1) and the lines
\* after it (the cells of each). enumerate(reader, start=2) of line 748
\* numbers the records, so line_index is 1 + the place of the record among
\* the records read.
parse_csv_rows(csv) ==
    LET fieldnames == SelectSeq([k \in 1..Len(csv.header) |-> Strip(csv.header[k])],
                                LAMBDA name : name # <<>>)
        missing_columns == {name \in REQUIRED_COLUMNS : Key(name) \notin Range(fieldnames)}
        records == DictReader(csv.header, csv.rows)
        normalized == [k \in 1..Len(records) |-> normalize_record(records[k], fieldnames)]
        bad == {k \in 1..Len(normalized) :
                   ~IsBlank(normalized[k]) /\ normalized[k][Key("agent_id")] = <<>>}
        rows == SelectSeq(normalized, LAMBDA r : ~IsBlank(r))
    IN  IF fieldnames = <<>> THEN [error |-> MissingHeader, rows |-> <<>>]
        ELSE IF missing_columns # {}
        THEN [error |-> MissingColumns(SortedStrs({Key(name) : name \in missing_columns})),
              rows |-> <<>>]
        ELSE IF bad # {}
        THEN [error |-> MissingAgentId(1 + CHOOSE k \in bad : \A j \in bad : k <= j),
              rows |-> <<>>]
        ELSE IF rows = <<>> THEN [error |-> NoDataRows, rows |-> <<>>]
        ELSE [error |-> NoError, rows |-> rows]

\* The positions of the rows that open an id (line 850 is false there).
FirstRows(rows) ==
    SelectSeq([k \in 1..Len(rows) |-> k],
              LAMBDA k : \A j \in 1..(k - 1) :
                            rows[j][Key("agent_id")] # rows[k][Key("agent_id")])
LaterRows(rows) ==
    SelectSeq([k \in 1..Len(rows) |-> k],
              LAMBDA k : \E j \in 1..(k - 1) :
                            rows[j][Key("agent_id")] = rows[k][Key("agent_id")])

\* Lines 848-854: the ids in first-seen order, and the id of every repeat.
ordered_agent_ids(rows) ==
    [n \in 1..Len(FirstRows(rows)) |-> rows[FirstRows(rows)[n]][Key("agent_id")]]
duplicate_ids(rows) ==
    [n \in 1..Len(LaterRows(rows)) |-> rows[LaterRows(rows)[n]][Key("agent_id")]]
rows_by_agent_id(rows) ==
    [a \in Range(ordered_agent_ids(rows)) |->
        rows[CHOOSE k \in Range(FirstRows(rows)) : rows[k][Key("agent_id")] = a]]

\* A variant of duplicates_display that keeps repeats and first-seen order.
DuplicatesDisplayRaw(duplicates) == duplicates
\* Line 857: sorted(set(duplicate_ids)).
duplicates_display(duplicates) == SortedStrs(Range(duplicates))

SelfWarning(source) == [kind |-> "self", a |-> source, b |-> <<>>, n |-> 0]
UnresolvedWarning(source, target) ==
    [kind |-> "unresolved", a |-> source, b |-> target, n |-> 0]
DisconnectedWarning(count) == [kind |-> "disconnected", a |-> <<>>, b |-> <<>>, n |-> count]

\* A variant of IsSelfReference that lets a self-reference through.
IsSelfReferenceNever(source, target) == FALSE
\* Line 871: the test target == agent_id.
IsSelfReference(source, target) == target = source

\* A variant of edge_key that keeps the pair as declared in every build.
EdgeKeyAsDeclared(source, target, directed) == <<source, target>>
\* A variant of edge_key that sorts the pair in every build.
EdgeKeySorted(source, target, directed) ==
    IF ~StrLess(target, source) THEN <<source, target>> ELSE <<target, source>>
\* Lines 884 and 890-891: the pair as declared in a directed build, sorted in
\* an undirected one.
edge_key(source, target, directed) ==
    IF directed \/ ~StrLess(target, source) THEN <<source, target>>
    ELSE <<target, source>>

\* A variant of AddAdjacency that records a link at its source alone.
AddAdjacencyAtSource(adjacency, source, target, directed) ==
    [adjacency EXCEPT ![source] = @ \cup {target}]
\* A variant of AddAdjacency that records a link at both ends in every build.
AddAdjacencyAtBothEnds(adjacency, source, target, directed) ==
    [adjacency EXCEPT ![source] = @ \cup {target}, ![target] = @ \cup {source}]
\* Lines 888 and 895-896: the adjacency of the source, and in an undirected
\* build of the target too.
AddAdjacency(adjacency, source, target, directed) ==
    IF directed THEN [adjacency EXCEPT ![source] = @ \cup {target}]
    ELSE [adjacency EXCEPT ![source] = @ \cup {target}, ![target] = @ \cup {source}]

\* Lines 871-896 for one declared connection; st holds adjacency, edge_set,
\* unresolved_count and warnings.
LinkStep(st, source, target, known, directed) ==
    IF IsSelfReference(source, target)
    THEN [st EXCEPT !.warnings = Append(@, SelfWarning(source))]
    ELSE IF target \notin known
    THEN [st EXCEPT !.unresolved_count = @ + 1,
                    !.warnings = Append(@, UnresolvedWarning(source, target))]
    ELSE IF edge_key(source, target, directed) \in st.edge_set THEN st
    ELSE [st EXCEPT !.edge_set = @ \cup {edge_key(source, target, directed)},
                    !.adjacency = AddAdjacency(@, source, target, directed)]

RECURSIVE LinkTargets(_, _, _, _, _)
\* The loop of line 870 over the declared connections of one source.
LinkTargets(st, source, targets, known, directed) ==
    IF targets = <<>> THEN st
    ELSE LinkTargets(LinkStep(st, source, Head(targets), known, directed),
                     source, Tail(targets), known, directed)

RECURSIVE LinkSources(_, _, _, _)
\* The loop of line 865 over the sources in row order.
LinkSources(st, sources, by_id, directed) ==
    IF sources = <<>> THEN st
    ELSE LinkSources(
            LinkTargets(st, Head(sources),
                        parse_connections(by_id[Head(sources)][Key("connections")]),
                        DOMAIN by_id, directed),
            Tail(sources), by_id, directed)

\* A variant of undirected_view that follows an edge from its source only.
UndirectedViewForward(ids, edge_set) ==
    [a \in ids |-> {b \in ids : <<a, b>> \in edge_set}]
\* Lines 902-905.
undirected_view(ids, edge_set) ==
    [a \in ids |-> {b \in ids : <<a, b>> \in edge_set \/ <<b, a>> \in edge_set}]

RECURSIVE Traverse(_, _, _)
\* The while loop of lines 914-919: the nodes visited once the stack is empty.
Traverse(stack, visited, view) ==
    IF stack = <<>> THEN visited
    ELSE LET current == stack[Len(stack)]
             rest == SubSeq(stack, 1, Len(stack) - 1)
         IN  IF current \in visited THEN Traverse(rest, visited, view)
             ELSE Traverse(rest \o SortedStrs(view[current] \ (visited \cup {current})),
                           visited \cup {current}, view)

RECURSIVE CountComponents(_, _, _, _)
\* The for loop of lines 909-919.
CountComponents(ids, visited, count, view) ==
    IF ids = <<>> THEN count
    ELSE IF Head(ids) \in visited THEN CountComponents(Tail(ids), visited, count, view)
    ELSE CountComponents(Tail(ids), Traverse(<<Head(ids)>>, visited, view),
                         count + 1, view)

\* build_social_graph
build_social_graph(csv, directed) ==
    LET parsed == parse_csv_rows(csv)
        rows == parsed.rows
        ids == ordered_agent_ids(rows)
        by_id == rows_by_agent_id(rows)
        linked == LinkSources([adjacency |-> [a \in Range(ids) |-> {}],
                               edge_set |-> {}, unresolved_count |-> 0,
                               warnings |-> <<>>],
                              ids, by_id, directed)
        connected_components ==
            CountComponents(ids, {}, 0, undirected_view(Range(ids), linked.edge_set))
        node_list == [n \in 1..Len(ids) |->
                        [id |-> ids[n],
                         metadata |-> by_id[ids[n]],
                         connections |-> SortedStrs(linked.adjacency[ids[n]]),
                         declared_connections |->
                             parse_connections(by_id[ids[n]][Key("connections")])]]
        edge_list == SortedPairs(linked.edge_set)
    IN  IF parsed.error # NoError THEN Rejected(parsed.error, directed)
        ELSE IF duplicate_ids(rows) # <<>>
        THEN Rejected(DuplicateError(duplicates_display(duplicate_ids(rows))), directed)
        ELSE [ok |-> TRUE, error |-> NoError, directed |-> directed,
              nodes |-> node_list,
              edges |-> edge_list,
              stats |-> [node_count |-> Len(node_list),
                         edge_count |-> Len(edge_list),
                         isolated_node_count |->
                             Cardinality({n \in 1..Len(node_list) :
                                             node_list[n].connections = <<>>}),
                         unresolved_connection_count |-> linked.unresolved_count,
                         connected_component_count |-> connected_components],
              warnings |-> IF connected_components > 1
                           THEN Append(linked.warnings,
                                       DisconnectedWarning(connected_components))
                           ELSE linked.warnings]

---------------------------------------------------------------------------
(* The CSV texts handed to the builder.                                    *)

\* The cells of one line under the header agent_id,connections,system_prompt.
Row(id, conns, prompt) == <<id, conns, prompt>>

GoodHeader == << <<"agent_id">>, <<"connections">>, <<"system_prompt">> >>
BadHeaders ==
    { <<>>, << <<" ">> >>, << <<"agent_id">>, <<"connections">> >>,
      << <<"connections">>, <<"system_prompt">> >> }
\* Headers that name the three columns in the order of GoodHeader, some of
\* the names written with a space before or after them.
PaddedHeaders ==
    { << <<" ", "agent_id">>, <<"connections">>, <<"system_prompt">> >>,
      << <<"agent_id">>, <<"connections", " ">>, <<"system_prompt">> >>,
      << <<"agent_id">>, <<"connections">>, <<" ", "system_prompt">> >>,
      << <<"agent_id">>, <<" ", "connections">>, <<" ", "system_prompt">> >>,
      << <<"agent_id", " ">>, <<"connections", " ">>, <<"system_prompt", " ">> >> }

GraphIds == { <<"A">>, <<"B">>, <<"C">> }
\* "", "A", "B;C", "C,A", " B|B " and "Z;;A".
ConnCells ==
    { <<>>, <<"A">>, <<"B", ";", "C">>, <<"C", ",", "A">>,
      <<" ", "B", "|", "B", " ">>, <<"Z", ";", ";", "A">> }

RichRows ==
    {Row(i, c, <<"p">>) : i \in GraphIds, c \in ConnCells}
    \cup { Row(<<>>, <<>>, <<" ">>),           \* a blank row
           Row(<<>>, <<"A">>, <<"p">>),        \* a row without agent_id
           Row(<<"A", " ">>, <<>>, <<"p">>),   \* "A " is "A" once stripped
           \* a row that repeats the header
           Row(<<"agent_id">>, <<"connections">>, <<"system_prompt">>) }
PlainRows ==
    { Row(<<"A">>, <<>>, <<"p">>), Row(<<"B">>, <<>>, <<"p">>),
      Row(<<"B">>, <<"A">>, <<"p">>) }

\* The lines under a padded header.
PaddedRows ==
    { Row(<<"A">>, <<"B">>, <<"p">>), Row(<<"A">>, <<"A">>, <<"p">>),
      Row(<<"B">>, <<>>, <<"p">>), Row(<<>>, <<>>, <<"p">>) }

\* Lines among which some have no cell (an empty line) or the first cell
\* only.
GapLines ==
    { <<>>, << <<"C">> >>, Row(<<"A">>, <<>>, <<"p">>), Row(<<"B">>, <<"A">>, <<"p">>),
      Row(<<>>, <<"B">>, <<"p">>) }

CsvInputs ==
    {[header |-> GoodHeader, rows |-> r] :
        r \in SeqsUpTo(RichRows, MaxRows) \cup SeqsUpTo(PlainRows, MaxPlainRows)
                 \cup SeqsUpTo(GapLines, MaxGapLines)}
    \cup {[header |-> h, rows |-> <<Row(<<"A">>, <<>>, <<"p">>)>>] : h \in BadHeaders}
    \cup {[header |-> h, rows |-> r] :
            h \in PaddedHeaders, r \in SeqsUpTo(PaddedRows, MaxPaddedRows)}

GraphInit ==
    /\ sim_status = IdleStatus
    /\ sim_results = EmptyDict
    /\ tasks = [t \in TaskIds |-> Slot("unused", {})]
    /\ reply = NoReply
    /\ gPc = "input"
    /\ gCsv \in CsvInputs
    /\ gDirected \in BOOLEAN
    /\ gOut = NoOutput
    /\ bfs = BfsOff
    /\ think = NoAnswer

\* One call build_social_graph(csv_text, directed).
Build ==
    /\ gPc = "input"
    /\ gPc' = "built"
    /\ gOut' = build_social_graph(gCsv, gDirected)
    /\ UNCHANGED <<gCsv, gDirected, simVars, bfsVars, thinkVars>>

GraphNext == Build

GraphSpec == GraphInit /\ [][GraphNext]_vars

---------------------------------------------------------------------------
(* One run of run_simulation(num_seeds, max_depth).                        *)

BfsInit ==
    /\ sim_status = IdleStatus
    /\ sim_results = EmptyDict
    /\ tasks = [t \in TaskIds |-> Slot("unused", {})]
    /\ reply = NoReply
    /\ gPc = "off"
    /\ gCsv = [header |-> <<>>, rows |-> <<>>]
    /\ gDirected = FALSE
    /\ gOut = NoOutput
    /\ bfs \in {BfsLocals("start", file, num_seeds, max_depth) :
                   file \in BfsFiles, num_seeds \in 0..BfsMaxSeeds,
                   max_depth \in 0..BfsMaxDepth}
    /\ think = NoAnswer

BfsNext ==
    \/ /\ BfsLoad
       /\ UNCHANGED <<simVars, graphVars, thinkVars>>
    \/ /\ LayerStart
       /\ UNCHANGED <<simVars, graphVars, thinkVars>>
    \/ /\ \E i \in bfs.pending, outcome \in {"reply", "cut", "fail"} : CallAnswer(i, outcome)
       /\ UNCHANGED <<simVars, graphVars, thinkVars>>
    \/ /\ \E i \in bfs.retrying, answered \in BOOLEAN : RetryAnswer(i, answered)
       /\ UNCHANGED <<simVars, graphVars, thinkVars>>
    \/ /\ BfsGatherRaise
       /\ UNCHANGED <<simVars, graphVars, thinkVars>>
    \/ /\ LayerEnd
       /\ UNCHANGED <<simVars, graphVars, thinkVars>>

BfsSpec == BfsInit /\ [][BfsNext]_vars

---------------------------------------------------------------------------
(* One answer of the generation service, taken by either caller.           *)

ThinkInit ==
    /\ sim_status = IdleStatus
    /\ sim_results = EmptyDict
    /\ tasks = [t \in TaskIds |-> Slot("unused", {})]
    /\ reply = NoReply
    /\ gPc = "off"
    /\ gCsv = [header |-> <<>>, rows |-> <<>>]
    /\ gDirected = FALSE
    /\ gOut = NoOutput
    /\ bfs = BfsOff
    /\ think \in {Answer(caller, content, content2) :
                     caller \in {"sim", "llm"}, content \in Contents,
                     content2 \in Contents}

ThinkNext ==
    \/ /\ SimAgentReturns
       /\ UNCHANGED <<simVars, graphVars, bfsVars>>
    \/ /\ SimAgentUnavailable
       /\ UNCHANGED <<simVars, graphVars, bfsVars>>
    \/ /\ AgentLlmFirstAnswer
       /\ UNCHANGED <<simVars, graphVars, bfsVars>>
    \/ /\ AgentLlmSecondAnswer
       /\ UNCHANGED <<simVars, graphVars, bfsVars>>
    \/ /\ AgentLlmUnavailable
       /\ UNCHANGED <<simVars, graphVars, bfsVars>>

ThinkSpec == ThinkInit /\ [][ThinkNext]_vars

---------------------------------------------------------------------------
(* Properties of the simulation engine.                                    *)

Running == sim_status.state = "running"
StartReplies == {"started", "already_running"}

\* C1: a start request received while the state is running gets the
\* already_running reply and leaves the run in flight untouched: the status
\* fields, the results store and the scheduled tasks are what they were.
C1_StartWhileRunningLeavesRun ==
    [][ (Running /\ reply'.kind \in StartReplies)
            => (reply' = AlreadyRunningReply
                /\ UNCHANGED <<sim_status, sim_results, tasks>>) ]_vars

\* A start was just rejected in the middle of a round of a run in progress.
C1_Witness ==
    /\ reply = AlreadyRunningReply
    /\ \E t \in TaskIds : tasks[t].pc = "gen" /\ tasks[t].day > 0
                          /\ tasks[t].pending # {}
    /\ sim_status.progress > 0

\* C2: at most one background task is in flight at any time, one is in
\* flight exactly while the state is running, and a start is accepted only
\* from a state other than running, which it sets to running as it schedules.
C2_AtMostOneTaskInFlight ==
    /\ [](/\ Cardinality({t \in TaskIds : InFlight(t)}) <= 1
          /\ Running <=> \E t \in TaskIds : InFlight(t))
    /\ [][ reply'.kind = "started" /\ reply' # reply
              => ~Running /\ sim_status'.state = "running" ]_vars
    /\ [][ \A t \in TaskIds : (InFlight(t) /\ ~InFlight(t)')
              => sim_status'.state \in {"done", "error"} ]_vars

\* A second run is in flight while calls orphaned by the first, failed, run
\* have not returned yet.
C2_Witness ==
    /\ tasks[1].pc = "failed"
    /\ tasks[1].pending # {}
    /\ tasks[2].pc = "gen"

\* C3: a results request is answered with the results store only when the
\* state is done, and with the not-ready condition (425) in every other
\* state; what it returns is the complete store of the finished run.
C3_ResultsOnlyWhenDone ==
    /\ reply.kind = "results" => /\ sim_status.state = "done"
                                 /\ reply.body = sim_results
    /\ reply.kind = "not_ready" => /\ sim_status.state \in {"idle", "running", "error"}
                                   /\ reply.code = 425

\* Results of a finished run with at least one agent were returned.
C3_Witness ==
    /\ reply.kind = "results"
    /\ DOMAIN reply.body # {}

\* C4: when a run reaches done, every agent id of the nodes passed to start
\* has exactly SIMULATION_DAYS entries in its days list.
C4_DaysHaveRRounds ==
    [][ \A t \in TaskIds :
          (InFlight(t) /\ tasks'[t].pc = "done" /\ tasks[t].graph_data # <<>>)
             => \A a \in IdSet(tasks[t].graph_data) :
                   /\ a \in DOMAIN sim_results'
                   /\ Len(sim_results'[a].days) = SIMULATION_DAYS ]_vars

FailedNow(t) == tasks[t].pc # "failed" /\ tasks'[t].pc = "failed"

\* The exception the next step of task t raises, "" when it raises none.
Raised(t) ==
    LET task == tasks[t]
    IN  CASE task.pc = "scheduled" /\ task.graph_data # <<>>
                -> BuildError(task.graph_data, 0)
          [] task.pc = "gen" /\ Raising(task) # {} -> IndexErrorText
          [] task.pc = "mem" /\ task.memPending = {} /\ task.day + 1 < SIMULATION_DAYS
                -> BuildError(task.nodes, task.day + 1)
          [] OTHER -> ""

C6_RoundBarrier ==
    \A t \in TaskIds :
        InFlight(t) =>
            /\ \A c \in tasks[t].pending : c[1] = tasks[t].day
            /\ tasks[t].pc = "mem" => tasks[t].pending = {}

\* In a later round the second agent's call has returned before the first's.
C6_Witness ==
    \E t \in TaskIds :
        /\ tasks[t].pc = "gen"
        /\ tasks[t].day = 2
        /\ tasks[t].pending = {<<2, 1>>}
        /\ Len(tasks[t].nodes) = 2

Transitions ==
    { <<"idle", "running">>, <<"running", "done">>, <<"running", "error">>,
      <<"done", "running">>, <<"error", "running">> }

\* C7: the state changes only along idle -> running, running -> done,
\* running -> error and done/error -> running; into running only by an
\* accepted start, and out of running only by a step of the task.
C7_StateMachine ==
    [][ sim_status'.state # sim_status.state
          => /\ <<sim_status.state, sim_status'.state>> \in Transitions
             /\ sim_status'.state = "running" <=> reply' = StartedReply
             /\ sim_status.state = "running"
                   => \E t \in TaskIds : InFlight(t) /\ ~InFlight(t)' ]_vars

\* A run ended in error after an earlier run had ended in done.
C7_Witness ==
    /\ sim_status.state = "error"
    /\ \E t \in TaskIds : tasks[t].pc = "done"

\* C8: once the run loop is to raise an exception, the run goes on to no
\* other round and publishes nothing: a call of the round that returns before
\* the task has taken the exception leaves the state running and the round
\* as it is, and the step in which the task takes it puts the state to error
\* with the exception text in the error field. The failed run stays failed:
\* it executes no further round, never becomes done, and what is left of its
\* calls only ends, writing neither status nor results.
C8_ExceptionAbortsRun ==
    [][ \A t \in TaskIds :
          /\ Raised(t) # ""
                => \/ /\ tasks'[t].pc = tasks[t].pc
                      /\ tasks'[t].day = tasks[t].day
                      /\ tasks'[t].results = tasks[t].results
                      /\ sim_status' = sim_status
                      /\ sim_status.state = "running"
                      /\ sim_results' = sim_results
                   \/ /\ tasks'[t].pc = "failed"
                      /\ sim_status' = [state |-> "error", progress |-> 0, total |-> 0,
                                        day |-> 0, error |-> Raised(t)]
                      /\ sim_results' = sim_results
          /\ tasks[t].pc = "failed"
                => /\ tasks'[t].pc = "failed"
                   /\ tasks'[t].pending \subseteq tasks[t].pending
                   /\ tasks'[t] # tasks[t] => UNCHANGED <<sim_status, sim_results>> ]_vars

\* A run failed in round 1, after round 0 had completed.
C8_Witness ==
    /\ sim_status.state = "error"
    /\ sim_status.error = TypeErrorText

---------------------------------------------------------------------------
(* Properties of the graph builder.                                        *)

Built == gPc = "built"

\* The columns of a header whose name, exactly as written, is the given one.
ColumnsNamed(header, name) == {j \in 1..Len(header) : header[j] = <<name>>}

\* The last column of that name, 0 if the header has none.
ColumnOf(header, name) ==
    LET cols == ColumnsNamed(header, name)
    IN  IF cols = {} THEN 0 ELSE CHOOSE j \in cols : \A i \in cols : i <= j

\* The cell of a line in column j; empty if there is no such cell.
CellAt(line, j) == IF j = 0 \/ j > Len(line) THEN <<>> ELSE line[j]

\* The cell of a line in the column of that name; empty if the header has no
\* column of exactly that name.
CellIn(header, line, name) == CellAt(line, ColumnOf(header, name))

\* The line with the cell of that column replaced.
WithCell(header, line, name, cell) ==
    [j \in 1..Len(line) |-> IF j \in ColumnsNamed(header, name) THEN cell ELSE line[j]]

\* The data rows of a CSV: its records, cells trimmed, blank ones left out.
DataRows(csv) ==
    LET id == ColumnOf(csv.header, "agent_id")
        conns == ColumnOf(csv.header, "connections")
        prompt == ColumnOf(csv.header, "system_prompt")
    IN  SelectSeq([k \in 1..Len(csv.rows) |->
                      [agent_id |-> Strip(CellAt(csv.rows[k], id)),
                       connections |-> Strip(CellAt(csv.rows[k], conns)),
                       system_prompt |-> Strip(CellAt(csv.rows[k], prompt))]],
                  LAMBDA r : r.agent_id # <<>> \/ r.connections # <<>>
                                 \/ r.system_prompt # <<>>)

\* The agent ids that occur in more than one data row.
RepeatedIds(csv) ==
    LET rows == DataRows(csv)
    IN  {a \in {rows[k].agent_id : k \in 1..Len(rows)} \ {<<>>} :
            Cardinality({k \in 1..Len(rows) : rows[k].agent_id = a}) > 1}

\* The header has a column of each required name, exactly as the name is
\* spelt, and every data row has an agent_id.
RowsWellFormed(csv) ==
    /\ \A name \in REQUIRED_COLUMNS : ColumnsNamed(csv.header, name) # {}
    /\ LET rows == DataRows(csv)
       IN  rows # <<>> /\ \A k \in 1..Len(rows) : rows[k].agent_id # <<>>

\* The build raised the duplicate error, listing each repeated id once.
ListsEveryDuplicate ==
    /\ ~gOut.ok
    /\ gOut.nodes = <<>> /\ gOut.edges = <<>>
    /\ gOut.error.kind = "duplicate"
    /\ Range(gOut.error.ids) = RepeatedIds(gCsv)
    /\ Len(gOut.error.ids) = Cardinality(RepeatedIds(gCsv))

\* C9 as stated: every CSV in which an agent_id occurs in more than one data
\* row is rejected with the one error that lists every duplicated id once.
C9_AnyCsvWithDuplicates ==
    (Built /\ RepeatedIds(gCsv) # {}) => ListsEveryDuplicate

\* C9, amended: every CSV that passes the row checks of _parse_csv_rows and
\* in which an agent_id occurs in more than one data row is rejected with
\* the one error that lists every duplicated id once, in sorted order.
C9_DuplicatesReported ==
    (Built /\ RowsWellFormed(gCsv) /\ RepeatedIds(gCsv) # {})
        => /\ ListsEveryDuplicate
           /\ \A k \in 1..(Len(gOut.error.ids) - 1) :
                 StrLess(gOut.error.ids[k], gOut.error.ids[k + 1])

\* Two ids are duplicated, one of them in a CSV of four rows.
C9_Witness ==
    /\ Built
    /\ gOut.error.kind = "duplicate"
    /\ Len(gOut.error.ids) = 2
    /\ Len(gCsv.rows) = 4

\* The data rows whose connections cell names the row's own agent_id.
SelfRows(csv) ==
    LET rows == DataRows(csv)
    IN  {k \in 1..Len(rows) :
            /\ rows[k].agent_id # <<>>
            /\ \E n \in 1..Len(Split(rows[k].connections)) :
                  Strip(Split(rows[k].connections)[n]) = rows[k].agent_id}

\* The self-reference of agent a left no trace but its warning.
SelfReferenceDropped(a) ==
    /\ gOut.ok
    /\ \A e \in Range(gOut.edges) : e[1] # e[2]
    /\ \A n \in 1..Len(gOut.nodes) :
          gOut.nodes[n].id = a => a \notin Range(gOut.nodes[n].connections)
    /\ \E w \in Range(gOut.warnings) : w.kind = "self" /\ w.a = a

\* C10 as stated: for every row whose connections cell contains the row's
\* own agent_id the build succeeds, no edge comes of the reference and a
\* self-connection warning names the agent.
C10_AnyRowWithSelfReference ==
    Built => \A k \in SelfRows(gCsv) : SelfReferenceDropped(DataRows(gCsv)[k].agent_id)

\* C10, amended: in every CSV that passes validation (the row checks and
\* unique agent ids), for every row whose connections cell contains the
\* row's own agent_id the build succeeds, no edge has source = target, the
\* node is not in its own connections and a self-connection warning names it.
C10_SelfReferenceIgnored ==
    (Built /\ RowsWellFormed(gCsv) /\ RepeatedIds(gCsv) = {})
        => /\ gOut.ok
           /\ \A k \in SelfRows(gCsv) : SelfReferenceDropped(DataRows(gCsv)[k].agent_id)

\* A row that names itself and another agent: the build succeeded with the
\* edge to the other agent and the warning.
C10_Witness ==
    /\ Built
    /\ gOut.ok
    /\ SelfRows(gCsv) # {}
    /\ gOut.edges # <<>>
    /\ \E w \in Range(gOut.warnings) : w.kind = "self"

\* The ids of the nodes of the graph that was built.
NodeIds == {gOut.nodes[n].id : n \in 1..Len(gOut.nodes)}
\* The connections list of node a, as a set.
ConnectionsOf(a) ==
    UNION {Range(gOut.nodes[n].connections) : n \in {k \in 1..Len(gOut.nodes) : gOut.nodes[k].id = a}}
\* The declared connections of node a, as a set.
DeclaredBy(a) ==
    UNION {Range(gOut.nodes[n].declared_connections) :
              n \in {k \in 1..Len(gOut.nodes) : gOut.nodes[k].id = a}}

\* C11: in an undirected build adjacency is symmetric, B is in A's
\* connections iff A is in B's, and a link declared in A's row alone puts
\* each of the two in the other's connections.
C11_UndirectedAdjacencySymmetric ==
    (Built /\ gOut.ok /\ ~gDirected)
        => /\ \A a, b \in NodeIds : b \in ConnectionsOf(a) <=> a \in ConnectionsOf(b)
           /\ \A a \in NodeIds : \A b \in (DeclaredBy(a) \cap NodeIds) \ {a} :
                 b \in ConnectionsOf(a) /\ a \in ConnectionsOf(b)

\* An undirected build in which A declares B, B does not declare A, and A
\* is in B's connections.
C11_Witness ==
    /\ Built /\ gOut.ok /\ ~gDirected
    /\ \E a, b \in NodeIds :
          /\ a # b
          /\ b \in DeclaredBy(a)
          /\ a \notin DeclaredBy(b)
          /\ a \in ConnectionsOf(b)

RECURSIVE JoinTokens(_)
\* The connections cell that lists the tokens, ";" between them.
JoinTokens(tokens) ==
    IF tokens = <<>> THEN <<>>
    ELSE IF Len(tokens) = 1 THEN Head(tokens)
    ELSE Head(tokens) \o <<";">> \o JoinTokens(Tail(tokens))

\* The CSV in which record k no longer declares token t.
DropDeclaration(csv, k, t) ==
    [csv EXCEPT !.rows[k] =
        WithCell(csv.header, @, "connections",
                 JoinTokens(DropOne(parse_connections(
                                        CellIn(csv.header, @, "connections")), t)))]

\* The pairs <<i, j>> of records of the CSV that declare each other.
MutualRecords(csv) ==
    {p \in (1..Len(csv.rows)) \X (1..Len(csv.rows)) :
        LET a == Strip(CellIn(csv.header, csv.rows[p[1]], "agent_id"))
            b == Strip(CellIn(csv.header, csv.rows[p[2]], "agent_id"))
        IN  /\ a # <<>> /\ b # <<>> /\ a # b
            /\ b \in Range(parse_connections(
                              CellIn(csv.header, csv.rows[p[1]], "connections")))
            /\ a \in Range(parse_connections(
                              CellIn(csv.header, csv.rows[p[2]], "connections")))}

\* The build gives the same edges for the CSV in which the second record of
\* a pair that declare each other no longer declares the first.
SameEdgesDeclaredOnce ==
    \A p \in MutualRecords(gCsv) :
        LET once == build_social_graph(
                        DropDeclaration(gCsv, p[2],
                            Strip(CellIn(gCsv.header, gCsv.rows[p[1]], "agent_id"))),
                        gDirected)
        IN  /\ once.ok
            /\ once.edges = gOut.edges
            /\ once.stats.edge_count = gOut.stats.edge_count

\* C12 as stated: in every build, the CSV in which A lists B and B lists A
\* gives the edge list and edge_count of the CSV in which only A lists B.
C12_AnyBuildCollapsesBothSides ==
    (Built /\ gOut.ok) => SameEdgesDeclaredOnce

\* C12, amended: in every undirected build, the CSV in which A lists B and B
\* lists A gives the edge list and edge_count of the CSV in which only A
\* lists B; the two declarations are one edge.
C12_UndirectedCollapsesBothSides ==
    (Built /\ gOut.ok /\ ~gDirected) => SameEdgesDeclaredOnce

\* The undirected build of rows (A, "B;C"), (B, "A"), (C, ""): edges (A,B)
\* and (A,C), no isolated node, one component.
C12_Witness ==
    /\ Built /\ gOut.ok /\ ~gDirected
    /\ MutualRecords(gCsv) # {}
    /\ DeclaredBy(<<"B">>) = {<<"A">>}
    /\ DeclaredBy(<<"C">>) = {}
    /\ gOut.edges = << << <<"A">>, <<"B">> >>, << <<"A">>, <<"C">> >> >>
    /\ gOut.stats.edge_count = 2
    /\ gOut.stats.isolated_node_count = 0
    /\ gOut.stats.connected_component_count = 1

\* Nodes a and b are the ends of an edge of the graph, in either direction.
Adjacent(a, b) == <<a, b>> \in Range(gOut.edges) \/ <<b, a>> \in Range(gOut.edges)

RECURSIVE ReachableFrom(_)
\* The nodes that paths from the nodes of S reach, edge direction ignored.
ReachableFrom(S) ==
    LET next == S \cup {b \in NodeIds : \E a \in S : Adjacent(a, b)}
    IN  IF next = S THEN S ELSE ReachableFrom(next)

\* The connected components of the graph, edge direction ignored.
Components == {ReachableFrom({a}) : a \in NodeIds}

DisconnectedWarnings ==
    {k \in 1..Len(gOut.warnings) : gOut.warnings[k].kind = "disconnected"}

\* C13: in every successful build, directed or not, connected_component_count
\* is the number of connected components of the undirected view of the edges
\* over all nodes; it is 1 iff every node is reachable from every other, and
\* the disconnected-graph warning is emitted iff it is greater than 1.
C13_ComponentCount ==
    (Built /\ gOut.ok)
        => /\ gOut.stats.connected_component_count = Cardinality(Components)
           /\ gOut.stats.connected_component_count = 1
                 <=> \A a, b \in NodeIds : b \in ReachableFrom({a})
           /\ DisconnectedWarnings # {} <=> gOut.stats.connected_component_count > 1
           /\ \A k \in DisconnectedWarnings :
                 gOut.warnings[k].n = gOut.stats.connected_component_count
           /\ Cardinality(DisconnectedWarnings) <= 1

\* A directed build of three nodes in two components, whose one edge points
\* from a later row to an earlier one.
C13_Witness ==
    /\ Built /\ gOut.ok /\ gDirected
    /\ gOut.stats.node_count = 3
    /\ gOut.stats.connected_component_count = 2
    /\ DisconnectedWarnings # {}
    /\ \E m, n \in 1..Len(gOut.nodes) :
          m < n /\ gOut.edges = << <<gOut.nodes[n].id, gOut.nodes[m].id>> >>

\* The header line has a name in it.
HasHeader(csv) == \E k \in 1..Len(csv.header) : Strip(csv.header[k]) # <<>>
\* The header has a column named agent_id, one named connections and one
\* named system_prompt.
HasRequiredColumns(csv) ==
    \A name \in REQUIRED_COLUMNS : ColumnsNamed(csv.header, name) # {}
\* No column of the header is a required name with spaces around it.
NoPaddedColumn(csv) ==
    \A j \in 1..Len(csv.header) : \A name \in REQUIRED_COLUMNS :
        Strip(csv.header[j]) = <<name>> => csv.header[j] = <<name>>
\* Every data row that is not blank has an agent_id.
EveryRowHasAgentId(csv) ==
    \A k \in 1..Len(DataRows(csv)) : DataRows(csv)[k].agent_id # <<>>

\* The build failed with a validation error of the given kind and gave no graph.
FailedWith(kind) ==
    /\ ~gOut.ok
    /\ gOut.error.kind = kind
    /\ gOut.nodes = <<>> /\ gOut.edges = <<>> /\ gOut.stats = NoStats

\* C14: a graph is returned only if the CSV has a header, the header holds
\* agent_id, connections and system_prompt, every non-blank data row has an
\* agent_id and the agent ids are unique; in each of the four other cases
\* the build fails with the validation error of the first check that fails
\* and returns no graph.
C14_ValidationErrors ==
    Built =>
        /\ gOut.ok => /\ HasHeader(gCsv)
                      /\ HasRequiredColumns(gCsv)
                      /\ EveryRowHasAgentId(gCsv)
                      /\ RepeatedIds(gCsv) = {}
        /\ IF ~HasHeader(gCsv) THEN FailedWith("missing_header")
           ELSE IF ~HasRequiredColumns(gCsv) THEN FailedWith("missing_columns")
           ELSE IF ~EveryRowHasAgentId(gCsv) THEN FailedWith("missing_agent_id")
           ELSE IF RepeatedIds(gCsv) # {} THEN FailedWith("duplicate")
           ELSE gOut.ok \/ FailedWith("no_data_rows")

\* The same for the CSVs whose header pads no required column name.
ValidationErrorsUnpadded ==
    (Built /\ NoPaddedColumn(gCsv)) => C14_ValidationErrors

\* A CSV with a row that lacks agent_id and with a repeated agent_id was
\* rejected for the row.
ValidationErrorsUnpaddedWitness ==
    /\ Built /\ NoPaddedColumn(gCsv)
    /\ ~EveryRowHasAgentId(gCsv)
    /\ RepeatedIds(gCsv) # {}
    /\ FailedWith("missing_agent_id")

\* A graph was returned for a CSV whose header has the column connections
\* only under a padded name.
PaddedHeaderAccepted ==
    /\ Built /\ gOut.ok
    /\ ColumnsNamed(gCsv.header, "connections") = {}
    /\ ~NoPaddedColumn(gCsv)

\* The record repeats the header: each cell holds the name of its column.
RepeatsHeader(header, line) ==
    \A name \in REQUIRED_COLUMNS : Strip(CellIn(header, line, name)) = <<name>>

\* The record is entirely blank.
BlankRecord(header, line) ==
    \A name \in REQUIRED_COLUMNS : Strip(CellIn(header, line, name)) = <<>>

\* The CSV without its blank records.
WithoutBlankRows(csv) ==
    [csv EXCEPT !.rows = SelectSeq(@, LAMBDA r : ~BlankRecord(csv.header, r))]
\* The CSV without its blank records and the records that repeat the header.
WithoutSkippedRows(csv) ==
    [csv EXCEPT !.rows = SelectSeq(@, LAMBDA r : /\ ~BlankRecord(csv.header, r)
                                                /\ ~RepeatsHeader(csv.header, r))]

\* C15: a data row that repeats the header, like an entirely blank row, is
\* skipped: the build of a CSV is the build of the CSV without such rows,
\* with no node, count, error or warning for them.
C15_HeaderLikeRowsSkipped ==
    (Built /\ build_social_graph(WithoutSkippedRows(gCsv), gDirected).ok)
        => gOut = build_social_graph(WithoutSkippedRows(gCsv), gDirected)

\* Entirely blank rows are skipped: the build of a CSV is the build of the
\* CSV without them.
BlankRowsSkipped ==
    (Built /\ build_social_graph(WithoutBlankRows(gCsv), gDirected).ok)
        => gOut = build_social_graph(WithoutBlankRows(gCsv), gDirected)

\* A build of a CSV with a blank row between two data rows.
BlankRowsSkippedWitness ==
    /\ Built /\ gOut.ok
    /\ Len(gCsv.rows) = 3
    /\ BlankRecord(gCsv.header, gCsv.rows[2])
    /\ gOut.stats.node_count = 2

\* The tokens of a connections cell: its pieces between separators, trimmed,
\* the empty ones left out.
TokensOf(cell) ==
    {Strip(Split(Strip(cell))[n]) : n \in 1..Len(Split(Strip(cell)))} \ {<<>>}

\* The connections cell of the data row of agent a.
CellOf(csv, a) ==
    LET rows == DataRows(csv)
    IN  rows[CHOOSE k \in 1..Len(rows) : rows[k].agent_id = a].connections

\* The pairs of a row's id and a distinct token of its cell that is neither
\* the row's own id nor the id of any row.
UnresolvedPairs ==
    {p \in NodeIds \X UNION {TokensOf(CellOf(gCsv, a)) : a \in NodeIds} :
        /\ p[2] \in TokensOf(CellOf(gCsv, p[1]))
        /\ p[2] # p[1]
        /\ p[2] \notin NodeIds}

UnresolvedWarnings ==
    {k \in 1..Len(gOut.warnings) : gOut.warnings[k].kind = "unresolved"}

\* C16: a declared connection to an id of no row is not fatal and leaves no
\* edge and no adjacency entry; unresolved_connection_count is the number of
\* pairs of a row and a distinct token of it that is neither the row's id
\* nor a known id, each with one unresolved-connection warning; a reference
\* to the agent of a later row resolves.
C16_UnresolvedConnections ==
    (Built /\ gOut.ok)
        => /\ \A e \in Range(gOut.edges) : e[1] \in NodeIds /\ e[2] \in NodeIds
           /\ \A a \in NodeIds : ConnectionsOf(a) \subseteq NodeIds
           /\ gOut.stats.unresolved_connection_count = Cardinality(UnresolvedPairs)
           /\ Cardinality(UnresolvedWarnings) = Cardinality(UnresolvedPairs)
           /\ \A p \in UnresolvedPairs :
                 Cardinality({k \in UnresolvedWarnings :
                                 gOut.warnings[k].a = p[1] /\ gOut.warnings[k].b = p[2]}) = 1
           /\ \A a \in NodeIds : \A b \in (TokensOf(CellOf(gCsv, a)) \cap NodeIds) \ {a} :
                 /\ b \in ConnectionsOf(a)
                 /\ <<a, b>> \in Range(gOut.edges)
                       \/ (~gDirected /\ <<b, a>> \in Range(gOut.edges))

\* A build in which one row names an unknown id twice, which counts once,
\* and an earlier row names the agent of a later row, which resolves.
C16_Witness ==
    /\ Built /\ gOut.ok
    /\ gOut.stats.unresolved_connection_count = 2
    /\ \E a \in NodeIds :
          LET pieces == Split(Strip(CellOf(gCsv, a)))
          IN  \E m, n \in 1..Len(pieces) :
                 /\ m < n
                 /\ Strip(pieces[m]) = Strip(pieces[n])
                 /\ <<a, Strip(pieces[m])>> \in UnresolvedPairs
    /\ \E m, n \in 1..Len(gOut.nodes) :
          /\ m < n
          /\ gOut.nodes[n].id \in TokensOf(CellOf(gCsv, gOut.nodes[m].id))
          /\ gOut.nodes[n].id \in ConnectionsOf(gOut.nodes[m].id)

\* The nodes that no edge links to another: in a directed build, the nodes
\* that are the source of no edge.
WithoutLink ==
    {n \in 1..Len(gOut.nodes) :
        ~\E e \in Range(gOut.edges) :
            e[1] = gOut.nodes[n].id \/ (~gDirected /\ e[2] = gOut.nodes[n].id)}

\* C17: isolated nodes are counted, not removed. In a directed and in an
\* undirected build every agent of the input is a node, in row order, and
\* isolated_node_count is the number of nodes whose connections list is
\* empty; in a directed build that list holds the outgoing targets only.
C17_IsolatedNodesKept ==
    (Built /\ gOut.ok)
        => /\ Len(gOut.nodes) = Len(DataRows(gCsv))
           /\ \A n \in 1..Len(gOut.nodes) : gOut.nodes[n].id = DataRows(gCsv)[n].agent_id
           /\ gOut.stats.node_count = Len(DataRows(gCsv))
           /\ gOut.stats.isolated_node_count =
                 Cardinality({n \in 1..Len(gOut.nodes) : gOut.nodes[n].connections = <<>>})
           /\ {n \in 1..Len(gOut.nodes) : gOut.nodes[n].connections = <<>>} = WithoutLink
           /\ gDirected => \A a \in NodeIds :
                 ConnectionsOf(a) = {e[2] : e \in {d \in Range(gOut.edges) : d[1] = a}}

\* A directed build in which a node that is the target of an edge has no
\* connections of its own: it is in the node list and counted as isolated.
C17_Witness ==
    /\ Built /\ gOut.ok /\ gDirected
    /\ gOut.stats.isolated_node_count >= 1
    /\ \E n \in 1..Len(gOut.nodes) :
          /\ gOut.nodes[n].connections = <<>>
          /\ \E e \in Range(gOut.edges) : e[2] = gOut.nodes[n].id

---------------------------------------------------------------------------
(* Properties of the BFS-depth variant.                                    *)

\* C18: a node is never revisited. Whatever the graph, the seeds and
\* max_depth, no two generation calls are for the same agent id and no two
\* entries of the history log have the same 'from', also when several
\* senders queued the agent.
C18_NeverRevisited ==
    /\ \A i, j \in 1..Len(bfs.calls) :
          i # j => bfs.calls[i].agent_id # bfs.calls[j].agent_id
    /\ \A i, j \in 1..Len(bfs.history) :
          i # j => bfs.history[i].from # bfs.history[j].from
    /\ \A i \in 1..Len(bfs.calls) : bfs.calls[i].agent_id \in bfs.visited
    /\ \A i \in 1..Len(bfs.history) :
          \E k \in 1..Len(bfs.calls) :
             /\ bfs.calls[k].agent_id = bfs.history[i].from
             /\ bfs.calls[k].depth = bfs.history[i].depth

\* Two senders of one layer queued the same agent; the next layer called it
\* once and logged it once.
C18_Witness ==
    /\ bfs.pc = "loop"
    /\ \E i, j \in 1..Len(bfs.layer) :
          /\ i < j
          /\ bfs.layer[i].agent_id = bfs.layer[j].agent_id
          /\ bfs.layer[i].message # bfs.layer[j].message
          /\ \E h \in 1..Len(bfs.history) : bfs.history[h].from = bfs.layer[i].agent_id


\* The connections of an agent in graph.json.
BfsNeighbors(agent_id) ==
    LET c == bfs_agent_map(bfs.nodes)[agent_id].connections
    IN  {c[k] : k \in 1..Len(c)}

\* Every call made so far is at less than max_depth, and the calls were
\* made in layers of increasing depth.
CallsInLayers ==
    /\ \A i \in 1..Len(bfs.calls) : bfs.calls[i].depth < bfs.max_depth
    /\ \A i \in 1..Len(bfs.history) : bfs.history[i].depth < bfs.max_depth
    /\ \A i, j \in 1..Len(bfs.calls) :
          i < j => bfs.calls[i].depth <= bfs.calls[j].depth
    /\ bfs.pc = "gather" =>
          \A i \in 1..Len(bfs.agent_ids) :
             \E k \in 1..Len(bfs.calls) :
                /\ bfs.calls[k].agent_id = bfs.agent_ids[i]
                /\ bfs.calls[k].depth = bfs.current_depth

\* A step that makes calls makes them when no earlier call is unsettled,
\* all at one depth that is greater than the depth of every earlier call.
LayerAfterLayer ==
    Len(bfs'.calls) > Len(bfs.calls) =>
       /\ bfs.pending = {} /\ bfs.retrying = {}
       /\ \A i \in 1..Len(bfs.calls) : bfs'.calls[i] = bfs.calls[i]
       /\ \A j \in (Len(bfs.calls) + 1)..Len(bfs'.calls) :
             /\ bfs'.calls[j].depth = bfs'.current_depth
             /\ \A i \in 1..Len(bfs.calls) : bfs.calls[i].depth < bfs'.calls[j].depth

\* A step that queues responses queues each for neighbors of its sender
\* that are not visited, at the depth of the sender plus one, and leaves
\* out no such neighbor.
ForwardsToUnvisited ==
    Len(bfs'.history) > Len(bfs.history) =>
       /\ \A k \in 1..Len(bfs'.queue) :
             k > Len(bfs.queue) =>
                /\ bfs'.queue[k].agent_id \notin bfs.visited
                /\ \E h \in (Len(bfs.history) + 1)..Len(bfs'.history) :
                      /\ bfs'.queue[k].message = bfs'.history[h].content
                      /\ bfs'.queue[k].agent_id \in BfsNeighbors(bfs'.history[h].from)
                      /\ bfs'.queue[k].depth = bfs'.history[h].depth + 1
       /\ \A h \in (Len(bfs.history) + 1)..Len(bfs'.history) :
             \A n \in BfsNeighbors(bfs'.history[h].from) \ bfs.visited :
                \E k \in (Len(bfs.queue) + 1)..Len(bfs'.queue) :
                   bfs'.queue[k] = QueueItem(n, bfs'.history[h].content,
                                             bfs'.history[h].depth + 1)

\* C19: a response is forwarded only to the neighbors that are unvisited
\* when it is handled, at the sender's depth plus one; the layers run in
\* strictly increasing depth, every call of a depth settled before a call
\* of the next depth is made; no agent is processed at max_depth or deeper.
C19_LayersInDepthOrder ==
    /\ []CallsInLayers
    /\ [][LayerAfterLayer /\ ForwardsToUnvisited]_vars

\* The run stopped at max_depth with responses still queued, after two
\* layers or more, and some sender had a visited neighbor that got nothing.
C19_Witness ==
    /\ bfs.pc = "done"
    /\ bfs.queue # <<>>
    /\ bfs.queue[1].depth = bfs.max_depth
    /\ bfs.current_depth = bfs.max_depth
    /\ \E i \in 1..Len(bfs.calls) : bfs.calls[i].depth >= 1
    /\ \E h \in 1..Len(bfs.history) :
          \E n \in BfsNeighbors(bfs.history[h].from) :
             /\ n \in bfs.visited
             /\ \A k \in 1..Len(bfs.queue) : bfs.queue[k].agent_id # n


---------------------------------------------------------------------------
(* Round 0 of the simulation engine.                                       *)

\* C20: in round 0 every agent's incoming list is exactly the stimulus, no
\* neighbor name is passed to the generation call, and the talked_to
\* recorded for day 0 is empty, in the task and in the published results.
C20_RoundZeroIsStimulusOnly ==
    /\ \A t \in TaskIds :
          /\ (tasks[t].pc \in {"gen", "mem"} /\ tasks[t].day = 0) =>
                /\ Len(tasks[t].calls) = Len(tasks[t].nodes)
                /\ \A i \in 1..Len(tasks[t].calls) :
                      /\ tasks[t].calls[i].agent = tasks[t].nodes[i].id
                      /\ tasks[t].calls[i].incoming = <<Stimulus>>
                      /\ tasks[t].calls[i].names = <<>>
                      /\ tasks[t].calls[i].talked_to = <<>>
          /\ \A a \in DOMAIN tasks[t].results :
                \A k \in 1..Len(tasks[t].results[a]) :
                   tasks[t].results[a][k].day = 0 =>
                      tasks[t].results[a][k].talked_to = <<>>
    /\ \A a \in DOMAIN sim_results :
          \A k \in 1..Len(sim_results[a].days) :
             sim_results[a].days[k].day = 0 => sim_results[a].days[k].talked_to = <<>>

\* Round 0 has been joined for an agent that has a neighbor in the graph:
\* its call got the stimulus alone and its day 0 entry names nobody.
C20_Witness ==
    \E t \in TaskIds :
       /\ tasks[t].pc = "mem" /\ tasks[t].day = 0
       /\ \E i \in 1..Len(tasks[t].nodes) :
             LET node == tasks[t].nodes[i]
             IN  /\ \E n \in 1..Len(node.conns) :
                       node.conns[n] \in IdSet(tasks[t].nodes) \ {node.id}
                 /\ tasks[t].calls[i].incoming = <<Stimulus>>
                 /\ tasks[t].results[node.id] # <<>>
                 /\ tasks[t].results[node.id][1].day = 0
                 /\ tasks[t].results[node.id][1].talked_to = <<>>


---------------------------------------------------------------------------
(* Rounds after round 0 of the simulation engine.                          *)

\* The neighbors of agent aid other than itself that have a message in the
\* snapshot cur, in the order of its connections.
OtherActive(nodes, aid, cur) ==
    SelectSeq(agent_map(nodes)[aid].conns, LAMBDA n : n \in DOMAIN cur /\ n # aid)

\* The incoming list of agent aid over the snapshot cur when its own
\* message counts only as the fallback.
IncomingFromOthers(nodes, aid, cur) ==
    LET active == OtherActive(nodes, aid, cur)
    IN  IF active # <<>> THEN [i \in 1..Len(active) |-> cur[active[i]]]
        ELSE IF aid \in DOMAIN cur THEN <<cur[aid]>>
        ELSE <<Stimulus>>

\* The calls of a round after round 0 that are being awaited.
LaterRoundCalls ==
    {<<t, i>> \in TaskIds \X (1..MaxNodes) :
        tasks[t].pc = "gen" /\ tasks[t].day > 0 /\ i <= Len(tasks[t].calls)}

\* C21: in a round r > 0 the incoming messages of agent A are the round r-1
\* messages of its connections other than A that produced one, or, when
\* there is none, A's own round r-1 message if it exists, else the
\* stimulus; A's own message is never an input next to another neighbor's.
C21_IncomingExcludesSelf ==
    \A c \in LaterRoundCalls :
       LET task == tasks[c[1]]
           call == task.calls[c[2]]
       IN  call.incoming = IncomingFromOthers(task.nodes, call.agent, task.current_messages)

\* The same for the agents that do not list themselves as a connection.
IncomingWithoutSelfLink ==
    \A c \in LaterRoundCalls :
       LET task == tasks[c[1]]
           call == task.calls[c[2]]
           conns == agent_map(task.nodes)[call.agent].conns
       IN  (\A k \in 1..Len(conns) : conns[k] # call.agent) =>
              call.incoming = IncomingFromOthers(task.nodes, call.agent, task.current_messages)

\* A later round is awaited for an agent with an active neighbor other
\* than itself, and for one that falls back on its own message.
IncomingWithoutSelfLinkWitness ==
    \E c \in LaterRoundCalls, d \in LaterRoundCalls :
       LET task == tasks[c[1]]
           call == task.calls[c[2]]
           other == tasks[d[1]].calls[d[2]]
       IN  /\ c[1] = d[1]
           /\ OtherActive(task.nodes, call.agent, task.current_messages) # <<>>
           /\ agent_map(task.nodes)[other.agent].conns = <<>>
           /\ other.incoming = <<task.current_messages[other.agent]>>


\* Message m was produced by a generation call of round d.
ProducedIn(m, d) == m.kind \in {"text", "placeholder"} /\ m.day = d

\* While round r > 0 is awaited or joined, the snapshot and every input of
\* the round's calls hold messages of round r-1 only.
InputsFromPreviousRound ==
    \A t \in TaskIds :
       (tasks[t].pc \in {"gen", "mem"} /\ tasks[t].day > 0) =>
          /\ \A a \in DOMAIN tasks[t].current_messages :
                ProducedIn(tasks[t].current_messages[a], tasks[t].day - 1)
          /\ \A i \in 1..Len(tasks[t].calls) :
                \A k \in 1..Len(tasks[t].calls[i].incoming) :
                   ProducedIn(tasks[t].calls[i].incoming[k], tasks[t].day - 1)

\* A step that replaces the snapshot of a task finds every call of the
\* round settled, and the new snapshot holds the round's responses.
SnapshotReplacedAfterRound ==
    \A t \in TaskIds :
       (tasks'[t].current_messages # tasks[t].current_messages
          /\ tasks'[t].current_messages # EmptyDict) =>
          /\ {c \in tasks[t].pending : c[1] = tasks[t].day} = {}
          /\ \A i \in 1..Len(tasks[t].responses) :
                /\ ProducedIn(tasks[t].responses[i], tasks[t].day)
                /\ \E a \in DOMAIN tasks'[t].current_messages :
                      tasks'[t].current_messages[a] = tasks[t].responses[i]
                         \/ \E j \in (i + 1)..Len(tasks[t].nodes) :
                               tasks[t].nodes[j].id = tasks[t].nodes[i].id
          /\ \A a \in DOMAIN tasks'[t].current_messages :
                ProducedIn(tasks'[t].current_messages[a], tasks[t].day)

\* C22: rounds are synchronous over a snapshot. Every message an agent
\* receives in round r > 0 was produced in round r-1, whatever the order in
\* which the calls of round r return, and the snapshot is replaced only
\* after all calls of round r have settled.
C22_RoundsReadPreviousSnapshot ==
    /\ []InputsFromPreviousRound
    /\ [][SnapshotReplacedAfterRound]_vars

\* In round 2 or later the second call has returned before the first, whose
\* input is the message its neighbor produced one round before.
C22_Witness ==
    \E t \in TaskIds :
       /\ tasks[t].pc = "gen" /\ tasks[t].day >= 2
       /\ Len(tasks[t].calls) = 2
       /\ <<tasks[t].day, 1>> \in tasks[t].pending
       /\ <<tasks[t].day, 2>> \notin tasks[t].pending
       /\ ProducedIn(tasks[t].responses[2], tasks[t].day)
       /\ tasks[t].calls[1].agent # tasks[t].calls[2].agent
       /\ tasks[t].calls[1].names = <<tasks[t].calls[2].agent>>
       /\ ProducedIn(tasks[t].calls[1].incoming[1], tasks[t].day - 1)
       /\ tasks[t].calls[1].incoming[1].by = tasks[t].calls[2].agent


---------------------------------------------------------------------------
(* The status counters.                                                    *)

\* The tasks whose round is in flight: its calls or its memory writes are
\* awaited.
RoundInFlight == {t \in TaskIds : tasks[t].pc \in {"gen", "mem"}}

\* The calls of the round in flight of task t that have returned.
ReturnedNow(t) ==
    {i \in 1..Len(tasks[t].nodes) :
        tasks[t].pc = "mem" \/ <<tasks[t].day, i>> \notin tasks[t].pending}

\* C23: during a running round the progress that status() reports goes up
\* by one as each generation call completes, before the other calls of the
\* round have finished, and day is the index of the round in flight. The
\* count is read while the round's gather is waiting or has been joined.
C23_ProgressPerCall ==
    \A t \in RoundInFlight :
       /\ sim_status.state = "running"
       /\ sim_status.day = tasks[t].day
       /\ (tasks[t].pc = "mem" \/ PendingNow(tasks[t]) # {}) =>
             sim_status.progress =
                tasks[t].day * Len(tasks[t].nodes) + Cardinality(ReturnedNow(t))

\* What the code keeps: day is the round in flight, and progress counts the
\* calls of the rounds that have been joined.
ProgressPerRound ==
    \A t \in RoundInFlight :
       /\ sim_status.state = "running"
       /\ sim_status.day = tasks[t].day
       /\ sim_status.progress =
             (tasks[t].day + IF tasks[t].pc = "mem" THEN 1 ELSE 0) * Len(tasks[t].nodes)

\* Round 1 is in flight and one of its two calls has returned.
ProgressPerRoundWitness ==
    \E t \in RoundInFlight :
       /\ tasks[t].pc = "gen" /\ tasks[t].day = 1
       /\ Len(tasks[t].nodes) = 2
       /\ Cardinality(ReturnedNow(t)) = 1
       /\ reply = StatusReply(sim_status)


---------------------------------------------------------------------------
(* The memory writes.                                                      *)

\* A step in which a memory write of task t ends leaves the status, the
\* published results and every local of the task but the set of awaited
\* writes as they were, whether the write was stored or failed.
MemoryWriteLeavesRun(t) ==
    tasks'[t].memFails > tasks[t].memFails =>
       /\ sim_status' = sim_status
       /\ sim_results' = sim_results
       /\ tasks'[t] = [tasks[t] EXCEPT !.memPending = tasks'[t].memPending,
                                       !.memFails = @ + 1]
       /\ tasks'[t].memPending \subseteq tasks[t].memPending
       /\ Cardinality(tasks[t].memPending \ tasks'[t].memPending) = 1

\* A step that ends the task after its memory writes fails it only with
\* the exception the next round's own loop raises, failed write or not.
RoundFailsOnlyByItself(t) ==
    (tasks[t].pc = "mem" /\ tasks'[t].pc = "failed") =>
       /\ tasks[t].memPending = {}
       /\ tasks[t].day + 1 < SIMULATION_DAYS
       /\ BuildError(tasks[t].nodes, tasks[t].day + 1) # ""
       /\ sim_status' = ErrorStatus(BuildError(tasks[t].nodes, tasks[t].day + 1))

\* A step that joins the memory writes of a round goes on as it would with
\* every write stored: to the next round over the round's responses, or to
\* the compiled results.
RoundGoesOnAfterWrites(t) ==
    (tasks[t].pc = "mem" /\ tasks'[t].pc \in {"gen", "done"}) =>
       /\ tasks[t].memPending = {}
       /\ IF tasks[t].day + 1 < SIMULATION_DAYS
          THEN /\ tasks'[t].pc = "gen"
               /\ tasks'[t].day = tasks[t].day + 1
               /\ tasks'[t].results = tasks[t].results
               /\ tasks'[t].current_messages = next_messages(tasks[t])
               /\ sim_status' = [sim_status EXCEPT !.day = tasks[t].day + 1]
          ELSE /\ tasks'[t].pc = "done"
               /\ sim_status'.state = "done"
               /\ \A a \in DOMAIN sim_results' : sim_results'[a].days = tasks[t].results[a]

\* C24: a failed memory write is swallowed. It changes no recorded result,
\* fails no round and never moves the run to 'error'; the run goes on to
\* the next round as if the write had been stored.
C24_MemoryFailureSwallowed ==
    [][\A t \in TaskIds : /\ MemoryWriteLeavesRun(t)
                          /\ RoundFailsOnlyByItself(t)
                          /\ RoundGoesOnAfterWrites(t)]_vars

\* A write of round 0 failed and round 1 is in flight, the run running.
C24_Witness ==
    \E t \in TaskIds :
       /\ tasks[t].pc = "gen" /\ tasks[t].day = 1
       /\ tasks[t].memFails > 0
       /\ sim_status.state = "running"
       /\ \A a \in DOMAIN tasks[t].results : Len(tasks[t].results[a]) >= 1


---------------------------------------------------------------------------
(* The compiled results.                                                   *)

\* The entry of agent a in the published results has one entry per round,
\* in the order of the rounds, and initial and final are the contents of
\* the first and of the last round.
DaysInRoundOrder(a) ==
    LET days == sim_results[a].days
    IN  /\ Len(days) = SIMULATION_DAYS
        /\ \A i \in 1..Len(days) : days[i].day = i - 1
        /\ sim_results[a].initial = days[1].content
        /\ sim_results[a].final = days[SIMULATION_DAYS].content

\* initial and final of agent a are messages of round 0 and of the last
\* round, the first and the last entry of days.
InitialAndFinal(a) ==
    LET days == sim_results[a].days
    IN  /\ days # <<>>
        /\ sim_results[a].initial = days[1].content
        /\ ProducedIn(sim_results[a].initial, 0)
        /\ sim_results[a].final = days[Len(days)].content
        /\ ProducedIn(sim_results[a].final, SIMULATION_DAYS - 1)
        /\ \A i, j \in 1..Len(days) : i < j => days[i].day <= days[j].day

\* A step that makes the state 'done' publishes, in the same step, an
\* entry for every agent id of the run.
PublishedWithDone ==
    (sim_status.state # "done" /\ sim_status'.state = "done") =>
       \E t \in TaskIds :
          /\ tasks[t].pc \in {"scheduled", "mem"} /\ tasks'[t].pc = "done"
          /\ DOMAIN sim_results' = IdSet(tasks[t].nodes)
          /\ \A a \in DOMAIN sim_results' :
                /\ sim_results'[a].agent_id = a
                /\ sim_results'[a].days = tasks[t].results[a]

\* C25: when the run is 'done', for every agent entry i of days has day i
\* for i in 0..R-1, initial is the content of round 0 and final the content
\* of round R-1, and the results are all there before 'done' can be seen.
C25_DaysOrderedAtDone ==
    /\ [](sim_status.state = "done" => \A a \in DOMAIN sim_results : DaysInRoundOrder(a))
    /\ [][PublishedWithDone]_vars

\* The same for the runs whose node entries have distinct ids; for every
\* run initial and final are the first and last entry and days never steps
\* back in round.
DaysOrderedForDistinctIds ==
    /\ [](sim_status.state = "done" =>
            /\ \A a \in DOMAIN sim_results : InitialAndFinal(a)
            /\ sim_status.total = SIMULATION_DAYS * Cardinality(DOMAIN sim_results) =>
                  \A a \in DOMAIN sim_results : DaysInRoundOrder(a))
    /\ [][PublishedWithDone]_vars

\* A run of two agents is done and served.
DaysOrderedForDistinctIdsWitness ==
    /\ sim_status.state = "done"
    /\ Cardinality(DOMAIN sim_results) = 2
    /\ sim_status.total = SIMULATION_DAYS * 2
    /\ reply = ResultsReply(sim_results)


---------------------------------------------------------------------------
(* Properties of the reply text.                                           *)

\* What follows the last marker of content.
AfterLastMarker(content) ==
    LET last == CHOOSE i \in 1..Len(content) :
                   /\ content[i] = Marker
                   /\ \A j \in (i + 1)..Len(content) : content[j] # Marker
    IN  SubSeq(content, last + 1, Len(content))

MarkerCount(content) == Cardinality({i \in 1..Len(content) : content[i] = Marker})

\* The call has returned a reply made of an answer of the service.
Replied == think.pc = "returned" /\ ~think.failed

\* C26: of the output of a generation call everything before the marker is
\* discarded and the text after the last marker is the reply; output with
\* no marker is returned unchanged as the full text.
C26_TextAfterLastMarker ==
    Replied =>
       think.out = IF HasMarker(think.content) THEN AfterLastMarker(think.content)
                   ELSE think.content

\* What both callers keep: the reply is the text after the first marker
\* without its outer whitespace, which is the text after the last marker
\* when there is one marker only; _call_sim_agent returns output with no
\* marker without its outer whitespace, call_agent_llm asks again and
\* returns nothing before the second answer.
TextAfterFirstMarker ==
    /\ think.pc = "asked" =>
          /\ think.caller = "llm" /\ ~HasMarker(think.content)
          /\ think.asked_again /\ think.out = <<>>
    /\ Replied =>
       /\ HasMarker(think.content) =>
             /\ think.out = strip(AfterFirstMarker(think.content))
             /\ MarkerCount(think.content) = 1 =>
                   think.out = strip(AfterLastMarker(think.content))
             /\ ~think.asked_again
       /\ (~HasMarker(think.content) /\ think.caller = "sim") =>
             think.out = strip(think.content)
       /\ (~HasMarker(think.content) /\ think.caller = "llm") =>
             /\ think.asked_again
             /\ think.out = sim_agent_content(think.content2)
       /\ think.out # <<>> => think.out[1] # " " /\ think.out[Len(think.out)] # " "

\* An answer with reasoning, one marker and a reply has been stripped.
TextAfterFirstMarkerWitness ==
    /\ think.caller = "sim" /\ Replied
    /\ think.content = <<"x", Marker, " ", "x">>
    /\ think.out = <<"x">>


---------------------------------------------------------------------------
(* Liveness of a run.                                                      *)

\* C27: with every generation call and every memory write returning or
\* raising in the end, an accepted start is followed by state 'done' or
\* 'error': the state does not stay 'running' for ever, and a start made
\* after that is accepted.
C27_RunEnds ==
    /\ (sim_status.state = "running") ~> (sim_status.state \in {"done", "error"})
    /\ [](sim_status.state \in {"done", "error"} => ~RunRejected(sim_status))

\* A second start has been accepted after the first run ended.
C27_Witness ==
    /\ tasks[1].pc \in {"done", "failed"}
    /\ tasks[2].pc = "gen"
    /\ sim_status.state = "running"


\* The counters of the status in one state.
CountersInRange ==
    /\ 0 <= sim_status.progress /\ sim_status.progress <= sim_status.total
    /\ sim_status.state \in {"idle", "running", "done", "error"}
    /\ sim_status.state = "running" =>
          0 <= sim_status.day /\ sim_status.day <= SIMULATION_DAYS - 1
    /\ sim_status.state = "done" =>
          /\ sim_status.progress = sim_status.total
          /\ sim_status.day = SIMULATION_DAYS
    /\ sim_status.state = "error" =>
          /\ sim_status.progress = 0 /\ sim_status.total = 0
          /\ sim_status.day = 0

\* The counters over one step: progress does not go down while the state
\* stays 'running', and the step to 'done' sets total to R times the number
\* of node entries of the run.
CountersOverStep ==
    /\ (sim_status.state = "running" /\ sim_status'.state = "running") =>
          sim_status'.progress >= sim_status.progress
    /\ (sim_status.state # "done" /\ sim_status'.state = "done") =>
          \E t \in TaskIds :
             /\ tasks[t].pc \in {"scheduled", "mem"} /\ tasks'[t].pc = "done"
             /\ sim_status'.total = SIMULATION_DAYS * Len(tasks[t].nodes)

\* C28: the status counters are consistent in every reachable state:
\* 0 <= progress <= total; while 'running' progress never decreases and
\* 0 <= day <= R-1; 'done' implies progress = total = R * (number of node
\* entries) and day = R; 'error' implies progress = total = 0 and day = 0.
C28_StatusCountersConsistent ==
    /\ []CountersInRange
    /\ [][CountersOverStep]_vars

\* A run of two node entries is in its second round or later, with part of
\* its steps counted.
C28_Witness ==
    /\ sim_status.state = "running"
    /\ sim_status.day >= 1
    /\ sim_status.total = SIMULATION_DAYS * 2
    /\ 0 < sim_status.progress /\ sim_status.progress < sim_status.total


---------------------------------------------------------------------------
(* Edges and adjacency of a build.                                         *)

\* The edges of the graph that was built, as a set of pairs.
EdgePairs == {<<gOut.edges[e][1], gOut.edges[e][2]>> : e \in 1..Len(gOut.edges)}

\* The sum of the lengths of the connections lists.
ConnectionSlots ==
    Cardinality({<<n, k>> \in (1..Len(gOut.nodes)) \X (1..(Len(gOut.nodes) + 1)) :
                    k <= Len(gOut.nodes[n].connections)})

\* C29: edges and adjacency of a successful build agree. Every endpoint of
\* an edge is the id of a node. Undirected: each edge has source < target
\* and B is in A's connections iff the sorted pair of A and B is an edge,
\* so the connections lists sum to 2 * edge_count. Directed: B is in A's
\* connections iff (A, B) is an edge, so they sum to edge_count. node_count
\* and edge_count are the lengths of the node and edge lists.
C29_EdgesAgreeWithAdjacency ==
    (Built /\ gOut.ok) =>
       /\ \A e \in EdgePairs : e[1] \in NodeIds /\ e[2] \in NodeIds
       /\ Cardinality(EdgePairs) = Len(gOut.edges)
       /\ \A n \in 1..Len(gOut.nodes) :
             Cardinality(Range(gOut.nodes[n].connections)) = Len(gOut.nodes[n].connections)
       /\ gOut.stats.node_count = Len(gOut.nodes)
       /\ gOut.stats.edge_count = Len(gOut.edges)
       /\ IF gOut.directed
          THEN /\ \A a, b \in NodeIds : b \in ConnectionsOf(a) <=> <<a, b>> \in EdgePairs
               /\ ConnectionSlots = gOut.stats.edge_count
          ELSE /\ \A e \in EdgePairs : StrLess(e[1], e[2])
               /\ \A a, b \in NodeIds :
                     b \in ConnectionsOf(a) <=>
                        (IF StrLess(a, b) THEN <<a, b>> ELSE <<b, a>>) \in EdgePairs
               /\ ConnectionSlots = 2 * gOut.stats.edge_count

\* A directed build with an edge from a later id to an earlier one that
\* has no edge back, next to another edge.
C29_Witness ==
    /\ Built /\ gOut.ok /\ gOut.directed
    /\ gOut.stats.edge_count >= 2
    /\ \E e \in EdgePairs : StrLess(e[2], e[1]) /\ <<e[2], e[1]>> \notin EdgePairs


---------------------------------------------------------------------------
(* Depth and distance in the BFS-depth variant.                            *)

RECURSIVE BfsWithin(_)
\* The agents at most k connections away from a seed.
BfsWithin(k) ==
    IF k = 0 THEN {bfs.seeds[s] : s \in 1..Len(bfs.seeds)}
    ELSE LET near == BfsWithin(k - 1)
         IN  near \cup UNION {BfsNeighbors(a) : a \in near}

\* The agents some path of connections reaches from a seed.
BfsReachable == BfsWithin(Len(bfs.nodes))

\* The length of the shortest path of connections from a seed to agent a.
BfsDistance(a) ==
    CHOOSE k \in 0..Len(bfs.nodes) :
       a \in BfsWithin(k) /\ (k > 0 => a \notin BfsWithin(k - 1))

\* The entries of the history log for agent a.
LoggedAs(a) == {h \in 1..Len(bfs.history) : bfs.history[h].from = a}

\* Every entry of the history log is for an agent a seed reaches, at the
\* depth that is its distance from the nearest seed.
LoggedAtDistance ==
    \A h \in 1..Len(bfs.history) :
       /\ bfs.history[h].from \in BfsReachable
       /\ bfs.history[h].depth = BfsDistance(bfs.history[h].from)

\* Every agent nearer to a seed than max_depth is logged exactly once, no
\* other agent is logged, and the layers taken are max_depth at most.
LoggedAllWithinDepth ==
    /\ \A a \in BfsReachable :
          Cardinality(LoggedAs(a)) = IF BfsDistance(a) < bfs.max_depth THEN 1 ELSE 0
    /\ Cardinality({bfs.calls[c].depth : c \in 1..Len(bfs.calls)}) <= bfs.max_depth

\* C30: for every graph and seed set the depth logged for an agent is its
\* shortest-path distance along connections from the nearest seed, every
\* agent nearer than max_depth is logged exactly once, and the loop ends
\* after max_depth layers at most.
\* Read when the run has ended, by the save step or by an exception.
C30_DepthIsDistance ==
    bfs.pc \in {"done", "crashed"} /\ bfs.seeds # <<>> =>
       LoggedAtDistance /\ LoggedAllWithinDepth

\* The same for the runs in which no generation call raises: they reach the
\* save step, and what they log until then is at the right depth.
DepthIsDistanceWhenSaved ==
    /\ LoggedAtDistance
    /\ bfs.pc = "done" =>
          /\ LoggedAllWithinDepth
          /\ bfs.saved /\ bfs.log = bfs.history

\* A saved run of max_depth 2 that logged an agent at depth 1 and left out
\* an agent at distance 2.
DepthIsDistanceWhenSavedWitness ==
    /\ bfs.pc = "done" /\ bfs.max_depth = 2
    /\ \E h \in 1..Len(bfs.history) : bfs.history[h].depth = 1
    /\ \E a \in BfsReachable : BfsDistance(a) = 2 /\ LoggedAs(a) = {}

=============================================================================
